---- MODULE Spec2Model ----
(***************************************************************************)
(* Av1an job lifecycle engine: the scene-detection zone walk               *)
(* (av1an-core/src/scene_detect.rs) and the orchestrator, worker pool and  *)
(* resume logic (av1an-core/src/context.rs).                               *)
(*                                                                         *)
(* Option<T> values are modelled as sequences of length 0 (None) or 1      *)
(* (Some(x)).                                                              *)
(***************************************************************************)
EXTENDS Integers, Sequences, FiniteSets, TLC

(* ------------------------------ bounds -------------------------------- *)

\* Largest total_frames of the scene-detection runs.
MaxFrames == 4

\* Longest zone list of the scene-detection runs.
MaxZones == 2

\* Most frames of the input clip of an orchestrator run.
MaxClipFrames == 2

\* Largest configured (or derived) worker count.
MaxWorkers == 2

\* Frames of the clips the planning runs are given.
MaxPlanFrames == 3

\* Lines a subprocess writes to its stderr.
MaxLines == 2

(* ------------------------- program constants -------------------------- *)

\* Attempts a chunk gets before the worker gives up (MAX_TRIES).
MaxTries == 3

\* The global min_scene_len argument and the value a zone override carries.
GlobalMinSceneLen == 2

ZoneMinSceneLen == 1

VARIABLES
    \* scene_detect (scene_detect.rs)
    total_frames,    \* the total_frames argument
    zones,           \* the zones argument: sequence of Scene records
    stream_left,     \* frames the decoder can still deliver
    scenes,          \* the scenes vector
    cur_zone,        \* Option<&Scene>
    next_zone_idx,   \* Option<usize>, 0-based
    frames_read,
    sd_pc,           \* "loop" | "done" | "err"
    sd_calls,        \* analyzer invocations so far
    last_call,       \* arguments and result of the latest analyzer invocation
    contract,        \* every analyzer result so far was well-formed for its segment
    \* the input and the files under temp/
    clip_frames,     \* num_frames of the input clip
    temp_exists,     \* temp/ is a directory
    done_json,       \* Option<file>: temp/done.json
    chunks_json,     \* Option<sequence of Chunk>: temp/chunks.json
    scenes_json,     \* Option<sequence of Scene>: temp/scenes.json
    out_file,        \* chunk index -> Option<file>: temp/encode/<name>.<ext>
    \* the av1an process (Av1anContext, encode_file, Broker)
    pc,              \* "off" | "ready" | "split" | "encoding" | "joined"
    resume,          \* self.args.resume
    ctx_frames,      \* self.frames
    done,            \* get_done(): the in-memory DoneJson
    splits,          \* the scenes split_routine returned
    chunk_queue,     \* Broker::chunk_queue
    total_chunks,
    chunks_done,
    initial_frames,
    workers,         \* self.args.workers: as configured, after line 310 the effective count
    bar,             \* Option<position of the progress bar>
    work,            \* chunks not yet pulled by a worker
    wk,              \* worker id -> worker state
    live_enc,        \* worker id -> encoder subprocesses alive
    chan,            \* FatalChunk messages in the mpsc channel
    au,              \* audio thread: "none" | "run" | "created" | "done"
    au_fd,           \* the audio thread's open handle still is temp/done.json
    exit_code,       \* how the latest process ended
    events,          \* post-encoding steps taken by the running/latest process
    \* history
    completed,       \* chunk index -> completions recorded since temp/ was last emptied (2: two or more)
    passed,          \* chunk index -> Option<the create_pipes call behind the latest completion>
    seen_done,       \* DoneSet entries observed since the last fresh start
    \* planning
    args,            \* the EncodeArgs the process is started with
    keyframes,       \* get_keyframes(input): the frames the container can be cut at
    split_files,     \* temp/split: the frame counts of its .mkv files in file name order
    \* one worker inside Av1anContext::create_pipes
    pipe_args,       \* the filter and pixel format arguments of self.args
    pipe,            \* the chunk, the attempt, its subprocesses, its result and the bar
    \* the chunk constructors of create_encoding_queue
    vq,              \* the scenes, the chunk method, temp/split and the queue built from them
    \* the stderr of the source and the filter inside create_pipes
    readers          \* the lines written, the lines read by the reader tasks, the main task

sdVars == <<total_frames, zones, stream_left, scenes, cur_zone, next_zone_idx,
            frames_read, sd_pc, sd_calls, last_call, contract>>

diskVars == <<clip_frames, temp_exists, done_json, chunks_json, scenes_json, out_file>>

procVars == <<pc, resume, ctx_frames, done, splits, chunk_queue, total_chunks, chunks_done,
              initial_frames, workers, bar, work, wk, live_enc, chan, au, au_fd,
              exit_code, events>>

histVars == <<completed, passed, seen_done>>

planVars == <<args, keyframes, split_files>>

orchVars == <<diskVars, procVars, histVars, planVars>>

pipeVars == <<pipe_args, pipe>>

vars == <<sdVars, orchVars, pipeVars, vq, readers>>

(* ------------------------------ helpers ------------------------------- *)

None == <<>>

Some(x) == <<x>>

Min(a, b) == IF a < b THEN a ELSE b

Last(s) == s[Len(s)]

\* The elements of a finite set of naturals in increasing order.
RECURSIVE SortedSeq(_)
SortedSeq(S) ==
    IF S = {} THEN <<>>
    ELSE LET m == CHOOSE x \in S : \A y \in S : x <= y
         IN  <<m>> \o SortedSeq(S \ {m})

\* itertools tuple_windows over a sequence: the consecutive pairs.
TupleWindows(s) == [i \in 1..(IF Len(s) = 0 THEN 0 ELSE Len(s) - 1) |-> <<s[i], s[i + 1]>>]

(* ------------------------- orchestrator values ------------------------ *)

\* Chunk indices and worker ids the bounds allow.
ChunkIds == 0..(MaxClipFrames - 1)

WorkerIds == 1..MaxWorkers

\* DoneJson { frames, done, audio_done } as init_done installs it on a fresh
\* run; the done map is a set of entries with pairwise different names.
EmptyDone == [frames |-> 0, audio_done |-> FALSE, done |-> {}]

\* A file as written in full, and a file created (truncated) but not yet written.
FileOf(content) == [complete |-> TRUE, json |-> content]

TruncatedFile == [complete |-> FALSE, json |-> EmptyDone]

NoChunk == [index |-> 0, start_frame |-> 0, end_frame |-> 0, passes |-> 0,
            ignore_frame_mismatch |-> FALSE]

\* A worker thread that does not exist, and one waiting to pull a chunk.
WorkerIn(st) == [st |-> st, chunk |-> NoChunk, pass |-> 0, try |-> 0, cmd |-> "",
                 attempts |-> 0, fails |-> 0, p1ok |-> FALSE]

\* The state of the variables of a process that does not run.
ProcOff ==
    /\ resume = FALSE
    /\ ctx_frames = 0
    /\ done = EmptyDone
    /\ splits = <<>>
    /\ chunk_queue = <<>>
    /\ total_chunks = 0
    /\ chunks_done = 0
    /\ initial_frames = 0
    /\ workers = 0
    /\ bar = None
    /\ work = <<>>
    /\ wk = [w \in WorkerIds |-> WorkerIn("absent")]
    /\ live_enc = [w \in WorkerIds |-> 0]
    /\ chan = 0
    /\ au = "none"
    /\ au_fd = FALSE

\* ChunkMethod, by the queue builder create_encoding_queue calls for it:
\* "vs" stands for FFMS2, LSMASH, DGDECNV and BESTSOURCE.
ChunkMethods == {"vs", "select", "segment", "hybrid"}

\* ChunkOrdering
ChunkOrderings == {"longest_first", "shortest_first", "sequential", "random"}

\* The arguments of a run that chunks with Select in sequential order.
DefaultArgs ==
    [resume |-> FALSE, chunk_method |-> "select", chunk_order |-> "sequential",
     passes |-> 1, ignore_frame_mismatch |-> FALSE]

\* Pixel formats with their bit depths, and the declared format of the input:
\* InputPixelFormat::FFmpeg{format} or InputPixelFormat::VapourSynth{bit_depth}.
PixelFormats ==
    {[format |-> "yuv420p", bit_depth |-> 8], [format |-> "yuv420p10le", bit_depth |-> 10]}

InputPixelFormats ==
    {[kind |-> "FFmpeg", format |-> f.format, bit_depth |-> 0] : f \in PixelFormats}
        \cup {[kind |-> "VapourSynth", format |-> "", bit_depth |-> f.bit_depth] :
                    f \in PixelFormats}

\* The arguments create_pipes reads from self.args.
PipeArgs ==
    [ffmpeg_filter_args : {<<>>, <<"-vf", "crop">>},
     input_pix_format : InputPixelFormats,
     output_pix_format : PixelFormats]

\* A worker that holds the given chunk and has not called create_pipes yet,
\* with the bar at the given position.
WorkerBefore(chunk, position) ==
    [st |-> "idle", chunk |-> chunk, pass |-> 1, try |-> 1,
     pipeline |-> <<>>, ffmpeg_pipe_stderr |-> None,
     frame |-> 0, bar |-> position, bar_before |-> position, done_frames |-> position,
     enc_status |-> 0, source_status |-> 0, filter_status |-> 0,
     file |-> None, res |-> None]

\* The create_pipes part of the state while create_pipes is not studied.
PipesIdle ==
    /\ pipe_args = [ffmpeg_filter_args |-> <<>>,
                    input_pix_format |-> [kind |-> "FFmpeg", format |-> "yuv420p",
                                          bit_depth |-> 0],
                    output_pix_format |-> [format |-> "yuv420p", bit_depth |-> 8]]
    /\ pipe = WorkerBefore(NoChunk, 0)

\* The stderr of one child: the lines it wrote (line k is the number k),
\* those of them still in the pipe, the accumulator its reader task appends
\* to, and whether the child has exited.
ChildStderr(exists) ==
    [exists |-> exists, written |-> <<>>, in_pipe |-> <<>>, text |-> <<>>, exited |-> FALSE]

\* create_pipes when the encoder is spawned: the main task starts reading the
\* encoder's stderr, the reader tasks are spawned.
ReadersAt(main, has_filter) ==
    [main |-> main, source |-> ChildStderr(TRUE), filter |-> ChildStderr(has_filter),
     source_pipe_stderr |-> None, ffmpeg_pipe_stderr |-> None]

\* The reader tasks while they are not studied.
ReadersIdle == readers = ReadersAt("idle", FALSE)

\* The chunk constructors before they are given scenes.
VideoQueueIdle ==
    vq = [st |-> "idle", chunk_method |-> "select", scenes |-> <<>>, keyframes |-> {},
          files |-> <<>>, chunk_queue |-> <<>>]

\* The orchestrator's part of the state while only scene_detect is studied.
OrchIdle ==
    /\ clip_frames = 1
    /\ temp_exists = FALSE
    /\ done_json = None
    /\ chunks_json = None
    /\ scenes_json = None
    /\ out_file = [c \in ChunkIds |-> None]
    /\ pc = "off"
    /\ ProcOff
    /\ exit_code = "none"
    /\ events = {}
    /\ completed = [c \in ChunkIds |-> 0]
    /\ passed = [c \in ChunkIds |-> None]
    /\ seen_done = {}
    /\ args = DefaultArgs
    /\ keyframes = {0}
    /\ split_files = <<>>

(* --------------------------- scene_detect ----------------------------- *)

\* The zone_overrides a zone may carry (ZoneOptions, reduced to min_scene_len).
ZoneOverrides == {None, Some([min_scene_len |-> ZoneMinSceneLen])}

ZoneSet(total) ==
    {[start_frame |-> s, end_frame |-> e, zone_overrides |-> o] :
        s \in 0..(total - 1), e \in 1..total, o \in ZoneOverrides}

\* Sorted, non-overlapping, non-empty zones inside [0, total).
ValidZones(zs, total) ==
    /\ \A i \in 1..Len(zs) : zs[i].start_frame < zs[i].end_frame /\ zs[i].end_frame <= total
    /\ \A i \in 1..(Len(zs) - 1) : zs[i].end_frame <= zs[i + 1].start_frame

ZoneLists(total) ==
    {zs \in UNION {[1..n -> ZoneSet(total)] : n \in 0..MaxZones} : ValidZones(zs, total)}

\* zones[idx] with the 0-based index of the source.
ZoneAt(idx) == zones[idx + 1]

\* let mut cur_zone = zones.first().filter(|frame| frame.start_frame == 0);
InitCurZone(zs) ==
    IF Len(zs) > 0 /\ zs[1].start_frame = 0 THEN Some(zs[1]) ELSE None

\* let mut next_zone_idx = ...
InitNextZoneIdx(zs) ==
    IF Len(zs) = 0 THEN None
    ELSE IF InitCurZone(zs) # None
         THEN (IF Len(zs) = 1 THEN None ELSE Some(1))
         ELSE Some(0)

InitSD ==
    /\ total_frames \in 1..MaxFrames
    /\ zones \in ZoneLists(total_frames)
    /\ stream_left \in {n \in {total_frames - 1, total_frames, total_frames + 1} : n >= 0}
    /\ scenes = <<>>
    /\ cur_zone = InitCurZone(zones)
    /\ next_zone_idx = InitNextZoneIdx(zones)
    /\ frames_read = 0
    /\ sd_pc = "loop"
    /\ sd_calls = 0
    /\ last_call = None
    /\ contract = TRUE
    /\ OrchIdle
    /\ PipesIdle
    /\ VideoQueueIdle
    /\ ReadersIdle

\* A min_scene_len that is the global one in every segment.
SegMinSceneLenGlobal == GlobalMinSceneLen

\* min_scene_len of one iteration: the active zone's override, else the global one.
SegMinSceneLen ==
    IF cur_zone # None /\ cur_zone[1].zone_overrides # None
    THEN cur_zone[1].zone_overrides[1].min_scene_len
    ELSE GlobalMinSceneLen

\* A frame limit whose gap segment runs to the end of the next zone.
FrameLimitToZoneEnd ==
    IF cur_zone # None
    THEN Some(cur_zone[1].end_frame - cur_zone[1].start_frame)
    ELSE IF next_zone_idx # None
         THEN Some(ZoneAt(next_zone_idx[1]).end_frame - frames_read)
         ELSE None

\* let frame_limit = ...
FrameLimit ==
    IF cur_zone # None
    THEN Some(cur_zone[1].end_frame - cur_zone[1].start_frame)
    ELSE IF next_zone_idx # None
         THEN Some(ZoneAt(next_zone_idx[1]).start_frame - frames_read)
         ELSE None

\* detect_scene_changes: reads up to frame_limit frames from the decoder and
\* returns the cut indices it found among the frames it read.
AnalyzerFrameCount(limit) ==
    IF limit = None THEN stream_left ELSE Min(limit[1], stream_left)

AnalyzerResults(limit) ==
    {[frame_count |-> AnalyzerFrameCount(limit), scene_changes |-> SortedSeq(C)] :
        C \in SUBSET (0..(AnalyzerFrameCount(limit) - 1))}

\* Frames of the segment an invocation covers.
SegmentLen(limit) == IF limit = None THEN total_frames - frames_read ELSE limit[1]

\* The analyzer result is well-formed for its segment: cuts start at 0, stay
\* inside the segment, and the frame count is the limit.
WellFormed(res, limit) ==
    /\ Len(res.scene_changes) > 0
    /\ res.scene_changes[1] = 0
    /\ \A i \in 1..Len(res.scene_changes) : res.scene_changes[i] < SegmentLen(limit)
    /\ limit # None => res.frame_count = limit[1]

\* The scenes pushed by the tuple_windows loop.
WindowScenes(cuts) ==
    LET w == TupleWindows(cuts)
    IN  [i \in 1..Len(w) |->
            [start_frame    |-> w[i][1] + frames_read,
             end_frame      |-> w[i][2] + frames_read,
             zone_overrides |-> IF cur_zone # None THEN cur_zone[1].zone_overrides ELSE None]]

\* A trailing scene that always starts at frame 0.
TrailingStartZero(sc) == 0

\* scenes.last().map(|scene| scene.end_frame).unwrap_or_default()
TrailingStart(sc) == IF Len(sc) > 0 THEN Last(sc).end_frame ELSE 0

\* The closing scene of a segment.
TrailingScene(sc, limit) ==
    [start_frame    |-> TrailingStart(sc),
     end_frame      |-> IF limit # None THEN frames_read + limit[1] ELSE total_frames,
     zone_overrides |-> IF cur_zone # None THEN cur_zone[1].zone_overrides ELSE None]

\* A test that holds between zones alone.
IsNoneOnly(x) == cur_zone = None

\* cur_zone.is_none_or(|zone| zone.end_frame == x)
IsNoneOrEndsAt(x) == cur_zone = None \/ cur_zone[1].end_frame = x

\* A comparison that accepts every frame count.
FrameCountAccepted(limit, res) == FALSE

\* Lines 162-171: the invocation had a frame limit and the analyzer saw
\* another number of frames.
FrameCountMismatch(limit, res) == limit # None /\ limit[1] # res.frame_count

\* One iteration of the loop of scene_detect.
SceneDetectIter ==
    /\ sd_pc = "loop"
    /\ LET limit == FrameLimit
       IN \E res \in AnalyzerResults(limit) :
          /\ sd_calls' = sd_calls + 1
          /\ last_call' = Some([min_scene_len |-> SegMinSceneLen, frame_limit |-> limit,
                                frames_read |-> frames_read, cur_zone |-> cur_zone,
                                result |-> res])
          /\ stream_left' = stream_left - res.frame_count
          /\ contract' = (contract /\ WellFormed(res, limit))
          /\ IF FrameCountMismatch(limit, res)
             THEN \* bail!
                  /\ sd_pc' = "err"
                  /\ scenes' = <<>>
                  /\ UNCHANGED <<cur_zone, next_zone_idx, frames_read>>
             ELSE LET pushed == scenes \o WindowScenes(res.scene_changes)
                  IN /\ scenes' = Append(pushed, TrailingScene(pushed, limit))
                     /\ frames_read' = IF limit # None THEN frames_read + limit[1] ELSE frames_read
                     /\ IF next_zone_idx # None
                        THEN /\ sd_pc' = "loop"
                             /\ IF IsNoneOrEndsAt(ZoneAt(next_zone_idx[1]).start_frame)
                                THEN /\ cur_zone' = Some(ZoneAt(next_zone_idx[1]))
                                     /\ next_zone_idx' =
                                            IF next_zone_idx[1] + 1 = Len(zones)
                                            THEN None
                                            ELSE Some(next_zone_idx[1] + 1)
                                ELSE /\ cur_zone' = None
                                     /\ UNCHANGED next_zone_idx
                        ELSE IF IsNoneOrEndsAt(total_frames)
                             THEN /\ sd_pc' = "done"
                                  /\ UNCHANGED <<cur_zone, next_zone_idx>>
                             ELSE /\ sd_pc' = "loop"
                                  /\ cur_zone' = None
                                  /\ UNCHANGED next_zone_idx
    /\ UNCHANGED <<total_frames, zones, orchVars, pipeVars, vq, readers>>

NextSD == SceneDetectIter

SpecSD == InitSD /\ [][NextSD]_vars

\* scene_detect as sequential code: while it is in its loop and the analyzer
\* returns, the next iteration is made.
SpecSDLive == SpecSD /\ WF_vars(SceneDetectIter)

(* ------------------- orchestrator: planning and resume ---------------- *)

\* Chunk::name(): the index as five decimal digits ("00001"-style).
Name(index) ==
    [k \in 1..5 |-> (index \div <<10000, 1000, 100, 10, 1>>[k]) % 10]

\* Chunk::frames()
Frames(chunk) == chunk.end_frame - chunk.start_frame

\* get_done().done.iter().map(|ref_multi| ref_multi.frames).sum::<usize>()
RECURSIVE SumFrames(_)
SumFrames(entries) ==
    IF entries = {} THEN 0
    ELSE LET e == CHOOSE x \in entries : TRUE
         IN  e.frames + SumFrames(entries \ {e})

\* done.done.contains_key(&name)
ContainsKey(d, name) == \E e \in d.done : e.name = name

\* done.done.insert(name, DoneChunk { frames, .. })
Insert(d, name, frames) ==
    [d EXCEPT !.done = {e \in d.done : e.name # name} \cup {[name |-> name, frames |-> frames]}]

\* The scene lists the scene factory can compute for a clip: the tilings of
\* [0, total) into scenes without zone overrides.
Tilings(total) ==
    {LET b == SortedSeq({0, total} \cup C)
     IN  [i \in 1..(Len(b) - 1) |->
             [start_frame |-> b[i], end_frame |-> b[i + 1], zone_overrides |-> None]] :
        C \in SUBSET (1..(total - 1))}

\* create_select_chunk / create_vs_chunk: the chunk of one scene.
MakeChunk(index, scene, passes, ignore) ==
    [index |-> index, start_frame |-> scene.start_frame, end_frame |-> scene.end_frame,
     passes |-> passes, ignore_frame_mismatch |-> ignore]

\* create_encoding_queue with create_video_queue_select / create_video_queue_vs
\* and ChunkOrdering::Sequential.
CreateEncodingQueue(sc, passes, ignore) ==
    [i \in 1..Len(sc) |-> MakeChunk(i - 1, sc[i], passes, ignore)]

\* A retain that keeps every chunk.
RetainAll(chunks, d) == chunks

\* A retain that keeps the chunks that are done.
RetainDoneOnly(chunks, d) ==
    SelectSeq(chunks, LAMBDA c : \E e \in d.done : e.name = Name(c.index))

\* chunks.retain(|chunk| !done.done.contains_key(&chunk.name()))
RetainNotDone(chunks, d) ==
    SelectSeq(chunks, LAMBDA c : ~ContainsKey(d, Name(c.index)))

\* A decision that looks at done.json alone.
ResumeDecisionDoneOnly(flag, done_json_exists, chunks_json_exists) ==
    flag /\ done_json_exists

\* initialize, lines 120-148: self.args.resume after the existence checks.
ResumeDecision(flag, done_json_exists, chunks_json_exists) ==
    flag /\ done_json_exists /\ chunks_json_exists

\* A load that installs a fresh DoneSet.
LoadedDoneFresh(d) == EmptyDone

\* initialize, lines 151-163: the DoneJson installed from done.json.
LoadedDone(d) == IF d.frames = 0 THEN [d EXCEPT !.frames = clip_frames] ELSE d

\* The process is gone: its memory and its threads with it.
ProcGone(code) ==
    /\ pc' = "off"
    /\ exit_code' = code
    /\ resume' = FALSE
    /\ ctx_frames' = 0
    /\ done' = EmptyDone
    /\ splits' = <<>>
    /\ chunk_queue' = <<>>
    /\ total_chunks' = 0
    /\ chunks_done' = 0
    /\ initial_frames' = 0
    /\ workers' = 0
    /\ bar' = None
    /\ work' = <<>>
    /\ wk' = [w \in WorkerIds |-> WorkerIn("absent")]
    /\ live_enc' = [w \in WorkerIds |-> 0]
    /\ chan' = 0
    /\ au' = "none"
    /\ au_fd' = FALSE

\* scene_detect is not running.
SceneDetectIdle ==
    /\ total_frames = 1
    /\ zones = <<>>
    /\ stream_left = 0
    /\ scenes = <<>>
    /\ cur_zone = None
    /\ next_zone_idx = None
    /\ frames_read = 0
    /\ sd_pc = "done"
    /\ sd_calls = 0
    /\ last_call = None
    /\ contract = TRUE

Init ==
    /\ clip_frames \in 1..MaxClipFrames
    /\ temp_exists = FALSE
    /\ done_json = None
    /\ chunks_json = None
    /\ scenes_json = None
    /\ out_file = [c \in ChunkIds |-> None]
    /\ pc = "off"
    /\ ProcOff
    /\ exit_code = "none"
    /\ events = {}
    /\ completed = [c \in ChunkIds |-> 0]
    /\ passed = [c \in ChunkIds |-> None]
    /\ seen_done = {}
    /\ args = DefaultArgs
    /\ keyframes = {0}
    /\ split_files = <<>>
    /\ SceneDetectIdle
    /\ PipesIdle
    /\ VideoQueueIdle
    /\ ReadersIdle

\* Av1anContext::new -> initialize, started with the resume flag r and the
\* configured worker count n (0: derive it).
New(r, n) ==
    /\ pc = "off"
    /\ events' = {}
    /\ LET purge == ~r /\ temp_exists
           dj == IF purge THEN None ELSE done_json
           cj == IF purge THEN None ELSE chunks_json
           res == ResumeDecision(r, dj # None, cj # None)
       IN /\ temp_exists' = TRUE
          /\ chunks_json' = cj
          /\ scenes_json' = IF purge THEN None ELSE scenes_json
          /\ out_file' = IF purge THEN [c \in ChunkIds |-> None] ELSE out_file
          /\ split_files' = IF purge THEN <<>> ELSE split_files
          /\ completed' = IF purge THEN [c \in ChunkIds |-> 0] ELSE completed
          /\ passed' = IF purge THEN [c \in ChunkIds |-> None] ELSE passed
          /\ seen_done' = IF res THEN seen_done ELSE {}
          /\ IF res /\ dj # None
             THEN IF dj[1].complete
                  THEN /\ done' = LoadedDone(dj[1].json)
                       /\ ctx_frames' = done'.frames
                       /\ resume' = TRUE
                       /\ done_json' = dj
                       /\ pc' = "ready"
                       /\ workers' = n
                       /\ exit_code' = "none"
                       /\ UNCHANGED <<splits, chunk_queue, total_chunks, chunks_done,
                                      initial_frames, bar, work, wk, live_enc,
                                      chan, au, au_fd>>
                  ELSE \* "Failed to parse done.json": new returns the error
                       /\ done_json' = dj
                       /\ ProcGone("error")
             ELSE /\ done' = EmptyDone
                  /\ done_json' = Some(FileOf(EmptyDone))
                  /\ resume' = FALSE
                  /\ pc' = "ready"
                  /\ workers' = n
                  /\ exit_code' = "none"
                  /\ UNCHANGED <<ctx_frames, splits, chunk_queue, total_chunks, chunks_done,
                                 initial_frames, bar, work, wk, live_enc,
                                 chan, au, au_fd>>
    /\ UNCHANGED <<clip_frames, args, keyframes, sdVars, pipeVars, vq, readers>>

\* encode_file, lines 181-249: initial_frames, then split_routine.
SplitRoutine ==
    /\ pc = "ready"
    /\ initial_frames' = SumFrames(done.done)
    /\ IF scenes_json # None /\ resume
       THEN splits' = scenes_json[1]
       ELSE splits' \in Tilings(clip_frames)
    /\ ctx_frames' = Last(splits').end_frame
    /\ scenes_json' = Some(splits')
    /\ pc' = "split"
    /\ UNCHANGED <<clip_frames, temp_exists, done_json, chunks_json, out_file, resume, done,
                   chunk_queue, total_chunks, chunks_done, workers, bar, work, wk,
                   live_enc, chan, au, au_fd, exit_code, events, histVars, sdVars, planVars, pipeVars, vq, readers>>

(* ----------------------- create_pipes and workers --------------------- *)

\* An encoder command that runs the first-pass command for every pass of a
\* two-pass chunk.
EncCmdFirstOnly(chunk, current_pass) ==
    IF chunk.passes = 1 THEN "compose_1_1_pass" ELSE "compose_1_2_pass"

\* create_pipes, lines 512-520: the encoder command of a pass.
EncCmd(chunk, current_pass) ==
    IF chunk.passes = 1 THEN "compose_1_1_pass"
    ELSE IF current_pass = 1 THEN "compose_1_2_pass"
         ELSE "compose_2_2_pass"

\* The commands that are given chunk.output() to write.
WritesOutput(cmd) == cmd \in {"compose_1_1_pass", "compose_2_2_pass"}

\* The file an encoder process leaves at chunk.output(): whether the frame
\* count probe can read it, and the frame count the probe finds.
OutFile(readable, frames) == [readable |-> readable, frames |-> frames]

\* What an encoder subprocess can do: exit with or without success, leaving a
\* complete, a short or an unreadable output.
EncOutcomes(chunk) ==
    {[ok |-> TRUE, file |-> OutFile(TRUE, Frames(chunk))],
     [ok |-> TRUE, file |-> OutFile(TRUE, Frames(chunk) - 1)],
     [ok |-> TRUE, file |-> OutFile(FALSE, 0)],
     [ok |-> FALSE, file |-> OutFile(TRUE, Frames(chunk) - 1)]}

\* get_num_frames(chunk.output())
Probe(file) ==
    IF file # None /\ file[1].readable
    THEN [ok |-> TRUE, frames |-> file[1].frames]
    ELSE [ok |-> FALSE, frames |-> 0]

\* A create_pipes that never verifies the frame count.
CreatePipesResultNoVerify(chunk, current_pass, enc_ok, probe) ==
    IF ~enc_ok THEN [ok |-> FALSE, stdout |-> "encoder"] ELSE [ok |-> TRUE, stdout |-> ""]

\* A create_pipes for which ignore_frame_mismatch also covers a failed probe.
CreatePipesResultIgnoreProbeError(chunk, current_pass, enc_ok, probe) ==
    IF ~enc_ok THEN [ok |-> FALSE, stdout |-> "encoder"]
    ELSE IF current_pass = chunk.passes /\ ~chunk.ignore_frame_mismatch
         THEN IF probe.ok /\ probe.frames # Frames(chunk)
              THEN [ok |-> FALSE, stdout |-> "FRAME MISMATCH"]
              ELSE IF ~probe.ok
                   THEN [ok |-> FALSE, stdout |-> "FAILED TO COUNT FRAMES"]
                   ELSE [ok |-> TRUE, stdout |-> ""]
         ELSE [ok |-> TRUE, stdout |-> ""]

\* A create_pipes that verifies the frame count after every pass.
CreatePipesResultVerifyEveryPass(chunk, current_pass, enc_ok, probe) ==
    IF ~enc_ok THEN [ok |-> FALSE, stdout |-> "encoder"]
    ELSE IF probe.ok /\ ~chunk.ignore_frame_mismatch /\ probe.frames # Frames(chunk)
         THEN [ok |-> FALSE, stdout |-> "FRAME MISMATCH"]
         ELSE IF ~probe.ok
              THEN [ok |-> FALSE, stdout |-> "FAILED TO COUNT FRAMES"]
              ELSE [ok |-> TRUE, stdout |-> ""]

\* create_pipes, lines 701-749: Ok(()) or the EncoderCrash it returns.
CreatePipesResult(chunk, current_pass, enc_ok, probe) ==
    IF ~enc_ok THEN [ok |-> FALSE, stdout |-> "encoder"]
    ELSE IF current_pass = chunk.passes
         THEN IF probe.ok /\ ~chunk.ignore_frame_mismatch /\ probe.frames # Frames(chunk)
              THEN [ok |-> FALSE, stdout |-> "FRAME MISMATCH"]
              ELSE IF ~probe.ok
                   THEN [ok |-> FALSE, stdout |-> "FAILED TO COUNT FRAMES"]
                   ELSE [ok |-> TRUE, stdout |-> ""]
         ELSE [ok |-> TRUE, stdout |-> ""]

\* An encoder that is left running when create_pipes returns.
EncoderLeftRunning(live, w) == live

\* enc_pipe.wait_with_output().await: the worker's encoder has exited.
EncoderReaped(live, w) == [live EXCEPT ![w] = live[w] - 1]

\* The encoder exit that ends the running pass of worker w, the output it
\* leaves and what create_pipes returns for it.
PassEnd(w, oc) ==
    LET chunk == wk[w].chunk
        written == IF WritesOutput(wk[w].cmd)
                   THEN [out_file EXCEPT ![chunk.index] = Some(oc.file)]
                   ELSE out_file
        probe == Probe(written[chunk.index])
    IN  [written |-> written,
         probe   |-> probe,
         res     |-> CreatePipesResult(chunk, wk[w].pass, oc.ok, probe),
         failed  |-> \/ ~oc.ok
                     \/ /\ wk[w].pass = chunk.passes
                        /\ \/ ~probe.ok
                           \/ ~chunk.ignore_frame_mismatch /\ probe.frames # Frames(chunk)]

\* A retry that goes on with the pass that failed.
RetryPassSame(failed_pass) == failed_pass

\* The pass the next attempt of a chunk starts with after an attempt failed
\* in failed_pass.
RetryPass(failed_pass) == 1

\* A retry rule that grants one attempt more.
TriesLeftOneMore(try) == try <= MaxTries

\* The worker starts another attempt of a chunk whose attempt number try
\* failed while fewer than MAX_TRIES attempts were made.
TriesLeft(try) == try < MaxTries

\* create_pipes up to line 648 for a pass of an attempt: the worker inside
\* create_pipes with the encoder subprocess of the pass spawned.
InPass(prev, chunk, pass, try) ==
    [prev EXCEPT !.st = "enc", !.chunk = chunk, !.pass = pass, !.try = try,
                 !.cmd = EncCmd(chunk, pass),
                 !.attempts = IF pass = 1 THEN @ + 1 ELSE @]

\* A worker thread takes the next chunk of the queue and starts its first
\* pass, or ends when the queue is empty.
Dispatched(queue) ==
    IF queue # <<>> THEN InPass(WorkerIn("idle"), Head(queue), 1, 1) ELSE WorkerIn("exited")

\* A worker count that is not capped by the queue.
EffectiveWorkersUncapped(configured, derived, queue_len) ==
    IF configured = 0 THEN derived ELSE configured

\* An audio thread for fresh runs only.
AudioSpawnedWhenFresh(is_video, res, audio_done) == is_video /\ ~res

\* encode_file, lines 280-281: the condition under which the audio thread is
\* spawned (audio of a VapourSynth input is unsupported).
AudioSpawned(is_video, res, audio_done) == is_video /\ (~res \/ ~audio_done)

\* self.args.workers after lines 307-310.
EffectiveWorkers(configured, derived, queue_len) ==
    Min(IF configured = 0 THEN derived ELSE configured, queue_len)

\* encode_file, lines 261-364: load_or_gen_chunk_queue, the audio thread, the
\* worker count, the progress bar (verbosity Normal or Verbose) and the broker
\* thread, whose worker threads each take a chunk in queue order; for a run
\* with the given passes and ignore_frame_mismatch arguments on an input that
\* is a video or is not.
StartEncodingWith(passes, ignore, is_video) ==
    /\ pc = "split"
    /\ IF resume
       THEN /\ chunk_queue' = RetainNotDone(chunks_json[1], done)
            /\ total_chunks' = Len(chunks_json[1])
            /\ UNCHANGED chunks_json
       ELSE /\ chunk_queue' = CreateEncodingQueue(splits, passes, ignore)
            /\ total_chunks' = Len(chunk_queue')
            /\ chunks_json' = Some(chunk_queue')
    /\ chunks_done' = IF resume THEN Cardinality(done.done) ELSE 0
    /\ au' = IF AudioSpawned(is_video, resume, done.audio_done) THEN "run" ELSE "none"
    /\ \E derived \in 1..MaxWorkers :
        workers' = EffectiveWorkers(workers, derived, Len(chunk_queue'))
    /\ bar' = Some(initial_frames)
    /\ work' = SubSeq(chunk_queue', workers' + 1, Len(chunk_queue'))
    /\ wk' = [w \in WorkerIds |->
                IF w <= workers'
                THEN Dispatched(SubSeq(chunk_queue', w, Len(chunk_queue')))
                ELSE WorkerIn("absent")]
    /\ live_enc' = [w \in WorkerIds |-> IF w <= workers' THEN 1 ELSE 0]
    /\ pc' = "encoding"
    /\ UNCHANGED <<clip_frames, temp_exists, done_json, scenes_json, out_file, resume,
                   ctx_frames, done, splits, initial_frames, chan, au_fd,
                   exit_code, events, histVars, sdVars, planVars, pipeVars, vq, readers>>

StartEncoding ==
    \E passes \in 1..2, ignore \in BOOLEAN, is_video \in BOOLEAN :
        StartEncodingWith(passes, ignore, is_video)

\* The process is killed from outside while it runs.
Kill ==
    /\ pc # "off"
    /\ ProcGone("killed")
    /\ UNCHANGED <<diskVars, events, histVars, sdVars, planVars, pipeVars, vq, readers>>

\* create_pipes returns Ok for a pass that is not the last: the worker enters
\* create_pipes for the next pass.
PassOk(w) ==
    /\ pc = "encoding"
    /\ wk[w].st = "enc"
    /\ \E oc \in EncOutcomes(wk[w].chunk) :
        LET e == PassEnd(w, oc)
        IN /\ e.res.ok
           /\ wk[w].pass < wk[w].chunk.passes
           /\ out_file' = e.written
           /\ live_enc' = [EncoderReaped(live_enc, w) EXCEPT ![w] = @ + 1]
           /\ wk' = [wk EXCEPT ![w] =
                        InPass([wk[w] EXCEPT !.p1ok = oc.ok, !.fails = IF e.failed THEN @ + 1 ELSE @],
                               wk[w].chunk, wk[w].pass + 1, wk[w].try)]
    /\ UNCHANGED <<clip_frames, temp_exists, done_json, chunks_json, scenes_json, pc, resume,
                   ctx_frames, done, splits, chunk_queue, total_chunks, chunks_done,
                   initial_frames, workers, bar, work, chan, au, au_fd, exit_code, events,
                   histVars, sdVars, planVars, pipeVars, vq, readers>>

\* Completion path: create_pipes returns Ok for the final pass; the chunk is
\* inserted into the DoneSet, the DoneSet is persisted (write to a temporary
\* file, rename) and the worker goes on to the next chunk.
ChunkDone(w) ==
    /\ pc = "encoding"
    /\ wk[w].st = "enc"
    /\ \E oc \in EncOutcomes(wk[w].chunk) :
        LET e == PassEnd(w, oc)
        IN /\ e.res.ok
           /\ wk[w].pass >= wk[w].chunk.passes
           /\ out_file' = e.written
           /\ live_enc' = [EncoderReaped(live_enc, w) EXCEPT
                               ![w] = IF work # <<>> THEN @ + 1 ELSE @]
           /\ passed' = [passed EXCEPT ![wk[w].chunk.index] =
                             Some([cmd |-> wk[w].cmd, pass |-> wk[w].pass, exit_ok |-> oc.ok,
                                   probe |-> e.probe, p1ok |-> wk[w].p1ok])]
    /\ done' = Insert(done, Name(wk[w].chunk.index), Frames(wk[w].chunk))
    /\ done_json' = Some(FileOf(done'))
    /\ au_fd' = FALSE
    /\ completed' = [completed EXCEPT ![wk[w].chunk.index] = IF @ < 2 THEN @ + 1 ELSE @]
    /\ seen_done' = seen_done \cup done'.done
    /\ wk' = [wk EXCEPT ![w] = Dispatched(work)]
    /\ work' = IF work # <<>> THEN Tail(work) ELSE work
    /\ UNCHANGED <<clip_frames, temp_exists, chunks_json, scenes_json, pc, resume,
                   ctx_frames, splits, chunk_queue, total_chunks, chunks_done,
                   initial_frames, workers, bar, chan, au, exit_code, events, sdVars, planVars, pipeVars, vq, readers>>

\* create_pipes returns an EncoderCrash and attempts are left: the next
\* attempt starts at pass 1.
AttemptFailed(w) ==
    /\ pc = "encoding"
    /\ wk[w].st = "enc"
    /\ TriesLeft(wk[w].try)
    /\ \E oc \in EncOutcomes(wk[w].chunk) :
        LET e == PassEnd(w, oc)
        IN /\ ~e.res.ok
           /\ out_file' = e.written
           /\ live_enc' = [EncoderReaped(live_enc, w) EXCEPT ![w] = @ + 1]
           /\ wk' = [wk EXCEPT ![w] =
                        InPass([wk[w] EXCEPT !.p1ok = FALSE, !.fails = IF e.failed THEN @ + 1 ELSE @],
                               wk[w].chunk, RetryPass(wk[w].pass), wk[w].try + 1)]
    /\ UNCHANGED <<clip_frames, temp_exists, done_json, chunks_json, scenes_json, pc, resume,
                   ctx_frames, done, splits, chunk_queue, total_chunks, chunks_done,
                   initial_frames, workers, bar, work, chan, au, au_fd, exit_code, events,
                   histVars, sdVars, planVars, pipeVars, vq, readers>>

\* create_pipes returns an EncoderCrash for the last attempt: the worker
\* sends FatalChunk and ends.
ChunkFatal(w) ==
    /\ pc = "encoding"
    /\ wk[w].st = "enc"
    /\ ~TriesLeft(wk[w].try)
    /\ \E oc \in EncOutcomes(wk[w].chunk) :
        LET e == PassEnd(w, oc)
        IN /\ ~e.res.ok
           /\ out_file' = e.written
           /\ live_enc' = EncoderReaped(live_enc, w)
           /\ wk' = [wk EXCEPT ![w].st = "fatal",
                               ![w].fails = IF e.failed THEN @ + 1 ELSE @]
    /\ chan' = chan + 1
    /\ UNCHANGED <<clip_frames, temp_exists, done_json, chunks_json, scenes_json, pc, resume,
                   ctx_frames, done, splits, chunk_queue, total_chunks, chunks_done,
                   initial_frames, workers, bar, work, au, au_fd, exit_code, events,
                   histVars, sdVars, planVars, pipeVars, vq, readers>>

(* ------------------ orchestrator: audio, receive, concat -------------- *)

\* Audio thread, lines 287-291: encode_audio returns, audio_done is stored
\* and done.json is created (truncated).
AudioCreate ==
    /\ pc \in {"encoding", "joined"}
    /\ au = "run"
    /\ done' = [done EXCEPT !.audio_done = TRUE]
    /\ done_json' = Some(TruncatedFile)
    /\ au_fd' = TRUE
    /\ au' = "created"
    /\ UNCHANGED <<clip_frames, temp_exists, chunks_json, scenes_json, out_file, pc, resume,
                   ctx_frames, splits, chunk_queue, total_chunks, chunks_done,
                   initial_frames, workers, bar, work, wk, live_enc, chan, exit_code,
                   events, histVars, sdVars, planVars, pipeVars, vq, readers>>

\* Audio thread, lines 292-301: the DoneJson is serialized and written through
\* the handle; the bytes reach temp/done.json unless it was replaced meanwhile.
AudioWrite ==
    /\ pc \in {"encoding", "joined"}
    /\ au = "created"
    /\ done_json' = IF au_fd THEN Some(FileOf(done)) ELSE done_json
    /\ au_fd' = FALSE
    /\ au' = "done"
    /\ UNCHANGED <<clip_frames, temp_exists, chunks_json, scenes_json, out_file, pc, resume,
                   ctx_frames, done, splits, chunk_queue, total_chunks, chunks_done,
                   initial_frames, workers, bar, work, wk, live_enc, chan, exit_code,
                   events, histVars, sdVars, planVars, pipeVars, vq, readers>>

\* A receive that treats a FatalChunk message like a closed channel.
RecvOutcomeIgnoreFatal(messages, senders_alive) ==
    IF senders_alive THEN "block" ELSE "join"

\* A receive that keeps waiting on a channel whose senders are all dropped.
RecvOutcomeBlocksOnClose(messages, senders_alive) ==
    IF messages > 0 THEN "exit1" ELSE "block"

\* rx.recv() at line 369: exit(1) on a message, go on when every sender is
\* dropped, block otherwise.
RecvOutcome(messages, senders_alive) ==
    IF messages > 0 THEN "exit1"
    ELSE IF senders_alive THEN "block" ELSE "join"

\* The encoding loop still holds a sender: some worker thread has not ended.
SendersAlive == \E w \in WorkerIds : wk[w].st \notin {"absent", "exited", "fatal"}

\* encode_file, lines 369-371: a FatalChunk message was received.
RecvFatal ==
    /\ pc = "encoding"
    /\ RecvOutcome(chan, SendersAlive) = "exit1"
    /\ ProcGone("1")
    /\ UNCHANGED <<diskVars, events, histVars, sdVars, planVars, pipeVars, vq, readers>>

\* encode_file, lines 369-375: the channel closed without a message.
RecvClosed ==
    /\ pc = "encoding"
    /\ RecvOutcome(chan, SendersAlive) = "join"
    /\ pc' = "joined"
    /\ UNCHANGED <<diskVars, resume, ctx_frames, done, splits, chunk_queue, total_chunks,
                   chunks_done, initial_frames, workers, bar, work, wk, live_enc, chan, au,
                   au_fd, exit_code, events, histVars, sdVars, planVars, pipeVars, vq, readers>>

\* A join that does not wait for the audio thread.
AudioJoinSkipped(a) == TRUE

\* encode_file, lines 379-380: audio_thread.join() has returned, or there is
\* no audio thread.
AudioJoined(a) == a \in {"none", "done"}

\* A cleanup that looks at the keep flag alone.
RemovesTempUnlessKept(output_exists, keep) == ~keep

\* encode_file, lines 459-470: remove_dir_all(temp) is called.
RemovesTemp(output_exists, keep) == output_exists /\ ~keep

\* encode_file, lines 379-474: the audio thread is joined, the chunks are
\* concatenated, the metric is computed, temp/ is removed. The events name
\* the steps taken, the warnings given and the keep flag of the run.
Finish ==
    /\ pc = "joined"
    /\ AudioJoined(au)
    /\ \E concat_ok \in BOOLEAN, output_exists \in BOOLEAN, vmaf \in BOOLEAN, keep \in BOOLEAN :
        IF ~concat_ok
        THEN \* the concatenation returned an error
             /\ events' = {"concat"}
             /\ ProcGone("error")
             /\ UNCHANGED <<diskVars, histVars, split_files>>
        ELSE \E remove_ok \in BOOLEAN :
             LET attempt == RemovesTemp(output_exists, keep)
                 remove == attempt /\ remove_ok
             IN \* remove_ok is the result of remove_dir_all where it is called
                /\ attempt \/ remove_ok
                /\ events' = {"concat"} \cup (IF vmaf THEN {"metric"} ELSE {})
                                        \cup (IF keep THEN {"keep"} ELSE {})
                                        \cup (IF ~output_exists THEN {"warn_no_output"} ELSE {})
                                        \cup (IF attempt THEN {"remove_temp"} ELSE {})
                                        \cup (IF attempt /\ ~remove_ok
                                              THEN {"warn_remove_failed"} ELSE {})
                /\ ProcGone("0")
                /\ temp_exists' = ~remove
                /\ done_json' = IF remove THEN None ELSE done_json
                /\ chunks_json' = IF remove THEN None ELSE chunks_json
                /\ scenes_json' = IF remove THEN None ELSE scenes_json
                /\ out_file' = IF remove THEN [c \in ChunkIds |-> None] ELSE out_file
                /\ split_files' = IF remove THEN <<>> ELSE split_files
                /\ completed' = IF remove THEN [c \in ChunkIds |-> 0] ELSE completed
                /\ passed' = IF remove THEN [c \in ChunkIds |-> None] ELSE passed
                /\ seen_done' = IF remove THEN {} ELSE seen_done
                /\ UNCHANGED clip_frames
    /\ UNCHANGED <<args, keyframes, sdVars, pipeVars, vq, readers>>

Next ==
    \/ \E r \in BOOLEAN, n \in 0..MaxWorkers : New(r, n)
    \/ SplitRoutine
    \/ StartEncoding
    \/ \E w \in WorkerIds : PassOk(w)
    \/ \E w \in WorkerIds : ChunkDone(w)
    \/ \E w \in WorkerIds : AttemptFailed(w)
    \/ \E w \in WorkerIds : ChunkFatal(w)
    \/ AudioCreate
    \/ AudioWrite
    \/ RecvFatal
    \/ RecvClosed
    \/ Finish
    \/ Kill

Spec == Init /\ [][Next]_vars

\* A step of the worker thread w: the encoder subprocess of its running pass
\* exits and the worker goes on.
WorkerStep(w) == PassOk(w) \/ ChunkDone(w) \/ AttemptFailed(w) \/ ChunkFatal(w)

\* A step of the audio thread.
AudioStep == AudioCreate \/ AudioWrite

\* The runs whose progress is studied: one pass with an audio thread, or two
\* passes without one.
StartEncodingLive ==
    \E ignore \in BOOLEAN :
        StartEncodingWith(1, ignore, TRUE) \/ StartEncodingWith(2, ignore, FALSE)

\* A step of the main thread inside encode_file.
MainStep == SplitRoutine \/ StartEncodingLive \/ RecvFatal \/ RecvClosed \/ Finish

\* Every subprocess eventually exits and every thread that can run does: the
\* encoders of the workers, the audio encoder, and the main thread in
\* encode_file.
Fairness ==
    /\ \A w \in WorkerIds : WF_vars(WorkerStep(w))
    /\ WF_vars(AudioStep)
    /\ WF_vars(MainStep)

\* One fresh run of encode_file from its start to the end of the process,
\* not killed from outside.
NextRun ==
    \/ \E n \in 0..MaxWorkers :
        /\ exit_code = "none"
        /\ New(FALSE, n)
    \/ SplitRoutine
    \/ StartEncodingLive
    \/ \E w \in WorkerIds : PassOk(w)
    \/ \E w \in WorkerIds : ChunkDone(w)
    \/ \E w \in WorkerIds : AttemptFailed(w)
    \/ \E w \in WorkerIds : ChunkFatal(w)
    \/ AudioCreate
    \/ AudioWrite
    \/ RecvFatal
    \/ RecvClosed
    \/ Finish

SpecLive == Init /\ [][NextRun]_vars /\ Fairness

(* ------------------------------ planning ------------------------------ *)

\* The chunk of a segment file or of a frame range inside one
\* (create_chunk_from_segment, create_select_chunk).
PlanChunk(index, start, end) ==
    [index |-> index, start_frame |-> start, end_frame |-> end,
     passes |-> args.passes, ignore_frame_mismatch |-> args.ignore_frame_mismatch]

\* create_video_queue_vs and create_video_queue_select: one chunk per scene.
VideoQueueScenes(sc) ==
    [i \in 1..Len(sc) |-> PlanChunk(i - 1, sc[i].start_frame, sc[i].end_frame)]

\* scenes.iter().skip(1).map(|scene| scene.start_frame)
SegmentPoints(sc) == [i \in 1..(Len(sc) - 1) |-> sc[i + 1].start_frame]

\* The keyframes that are the start of a scene, in increasing order.
ToSplit(kf, sc) ==
    SortedSeq({k \in kf : \E i \in 1..Len(sc) : sc[i].start_frame = k})

\* The segment files a split of total frames at the given points consists of.
SegmentsAt(points, total) ==
    LET b == <<0>> \o points \o <<total>>
    IN  [i \in 1..(Len(b) - 1) |-> b[i + 1] - b[i]]

\* temp/split after segment(input, temp, points): the splitter wrote its files
\* over the ones of the same name, or it wrote no file.
SplitterOutcomes(points, total, old) ==
    LET new == SegmentsAt(points, total)
    IN  {new \o SubSeq(old, Len(new) + 1, Len(old)), old}

\* A segment queue that is built whatever temp/split holds.
VideoQueueSegmentUnchecked(files, sc) ==
    IF Len(files) > Len(sc)
    THEN [ok |-> FALSE, chunks |-> <<>>]
    ELSE [ok |-> TRUE, chunks |-> [i \in 1..Len(files) |-> PlanChunk(i - 1, 0, files[i])]]

\* create_video_queue_segment after segment() returned: the assert on the
\* files of temp/split, then one chunk per file with the overrides of the
\* scene of its index.
VideoQueueSegment(files, sc) ==
    IF files = <<>> \/ Len(files) > Len(sc)
    THEN [ok |-> FALSE, chunks |-> <<>>]
    ELSE [ok |-> TRUE, chunks |-> [i \in 1..Len(files) |-> PlanChunk(i - 1, 0, files[i])]]

\* The (start, end) pairs create_video_queue_hybrid pushes: for each file
\* zipped with its keyframe window, the scenes inside the window.
RECURSIVE HybridSegments(_, _, _, _)
HybridSegments(n, windows, sc, i) ==
    IF i > n THEN <<>>
    ELSE LET x == windows[i]
             y == windows[i + 1]
             inside == SelectSeq(sc, LAMBDA s : s.start_frame >= x /\ s.end_frame <= y
                                                /\ s.start_frame < s.end_frame)
         IN  [j \in 1..Len(inside) |->
                 <<inside[j].start_frame - x, inside[j].end_frame - x>>]
             \o HybridSegments(n, windows, sc, i + 1)

\* create_video_queue_hybrid after segment() returned.
VideoQueueHybrid(files, sc, kf, frames) ==
    LET windows == ToSplit(kf, sc) \o <<frames>>
        segs == HybridSegments(Min(Len(files), Len(windows) - 1), windows, sc, 1)
    IN  [ok |-> TRUE,
         chunks |-> [i \in 1..Len(segs) |-> PlanChunk(i - 1, segs[i][1], segs[i][2])]]

\* create_encoding_queue, lines 753-771: the queue of the chunk method.
VideoQueue(method, files, sc, kf, frames) ==
    CASE method = "segment" -> VideoQueueSegment(files, sc)
      [] method = "hybrid"  -> VideoQueueHybrid(files, sc, kf, frames)
      [] OTHER              -> [ok |-> TRUE, chunks |-> VideoQueueScenes(sc)]

\* The chunks in increasing order of frames, chunks of equal frames in the
\* order they have.
RECURSIVE ByFramesAscending(_, _, _)
ByFramesAscending(chunks, k, max) ==
    IF k > max THEN <<>>
    ELSE SelectSeq(chunks, LAMBDA c : Frames(c) = k) \o ByFramesAscending(chunks, k + 1, max)

\* The chunks in decreasing order of frames.
RECURSIVE ByFramesDescending(_, _)
ByFramesDescending(chunks, k) ==
    IF k < 0 THEN <<>>
    ELSE SelectSeq(chunks, LAMBDA c : Frames(c) = k) \o ByFramesDescending(chunks, k - 1)

MaxChunkFrames(chunks) ==
    IF chunks = <<>> THEN 0
    ELSE CHOOSE m \in {Frames(chunks[i]) : i \in 1..Len(chunks)} :
            \A i \in 1..Len(chunks) : Frames(chunks[i]) <= m

\* chunks.shuffle(&mut rng()): the generator is seeded by the system, every
\* permutation can come out.
Shuffled(chunks) ==
    {[i \in 1..Len(chunks) |-> chunks[p[i]]] : p \in Permutations(1..Len(chunks))}

\* An order step that leaves the queue as planned.
OrderedAsPlanned(chunks, order) == {chunks}

\* create_encoding_queue, lines 773-786: the orders chunk_order can give.
Ordered(chunks, order) ==
    CASE order = "longest_first"  -> {ByFramesDescending(chunks, MaxChunkFrames(chunks))}
      [] order = "shortest_first" -> {ByFramesAscending(chunks, 0, MaxChunkFrames(chunks))}
      [] order = "random"         -> Shuffled(chunks)
      [] OTHER                    -> {chunks}

\* The user adds the resume flag to the command line for the next run.
SetResumeFlag ==
    /\ pc = "off"
    /\ ~args.resume
    /\ args' = [args EXCEPT !.resume = TRUE]
    /\ UNCHANGED <<diskVars, procVars, histVars, keyframes, split_files, sdVars, pipeVars, vq, readers>>

\* A run without the resume flag is killed inside remove_dir_all (initialize,
\* lines 101-107): some of the files of temp/ are gone, temp/ still is there.
KillInPurge ==
    /\ pc = "off"
    /\ ~args.resume
    /\ temp_exists
    /\ \E gone \in SUBSET {"done.json", "chunks.json", "scenes.json", "split"} :
        /\ done_json' = IF "done.json" \in gone THEN None ELSE done_json
        /\ chunks_json' = IF "chunks.json" \in gone THEN None ELSE chunks_json
        /\ scenes_json' = IF "scenes.json" \in gone THEN None ELSE scenes_json
        /\ split_files' = IF "split" \in gone THEN <<>> ELSE split_files
    /\ events' = {}
    /\ ProcGone("killed")
    /\ UNCHANGED <<clip_frames, temp_exists, out_file, histVars, args, keyframes, sdVars, pipeVars, vq, readers>>

\* create_video_queue_segment and create_video_queue_hybrid up to the return
\* of segment(): the splitter ran on the points of the chunk method.
SegmentVideo ==
    /\ pc = "split"
    /\ ~resume
    /\ args.chunk_method \in {"segment", "hybrid"}
    /\ LET to_split == ToSplit(keyframes, splits)
       IN  IF args.chunk_method = "hybrid" /\ to_split = <<>>
           THEN \* &to_split[1..] panics
                /\ ProcGone("panic")
                /\ UNCHANGED split_files
           ELSE /\ split_files' \in SplitterOutcomes(
                        IF args.chunk_method = "segment" THEN SegmentPoints(splits)
                        ELSE Tail(to_split), clip_frames, split_files)
                /\ pc' = "segmented"
                /\ UNCHANGED <<resume, ctx_frames, done, splits, chunk_queue, total_chunks,
                               chunks_done, initial_frames, workers, bar, work, wk,
                               live_enc, chan, au, au_fd, exit_code>>
    /\ UNCHANGED <<diskVars, events, histVars, args, keyframes, sdVars, pipeVars, vq, readers>>

\* load_or_gen_chunk_queue, lines 1135-1151: the queue is read from
\* chunks.json and reduced to the chunks not done, or it is created, ordered
\* and saved to chunks.json.
PlanQueue ==
    /\ \/ pc = "segmented"
       \/ pc = "split" /\ (resume \/ args.chunk_method \in {"vs", "select"})
    /\ IF resume
       THEN /\ chunk_queue' = RetainNotDone(chunks_json[1], done)
            /\ total_chunks' = Len(chunks_json[1])
            /\ pc' = "planned"
            /\ UNCHANGED <<chunks_json, resume, ctx_frames, done, splits,
                           chunks_done, initial_frames, workers, bar, work, wk, live_enc,
                           chan, au, au_fd, exit_code>>
       ELSE LET q == VideoQueue(args.chunk_method, split_files, splits, keyframes, ctx_frames)
            IN  IF ~q.ok
                THEN \* the assert, or scenes[index] out of bounds: a panic
                     /\ ProcGone("panic")
                     /\ UNCHANGED chunks_json
                ELSE /\ chunk_queue' \in Ordered(q.chunks, args.chunk_order)
                     /\ total_chunks' = Len(chunk_queue')
                     /\ chunks_json' = Some(chunk_queue')
                     /\ pc' = "planned"
                     /\ UNCHANGED <<resume, ctx_frames, done, splits, chunks_done,
                                    initial_frames, workers, bar, work, wk, live_enc,
                                    chan, au, au_fd, exit_code>>
    /\ UNCHANGED <<clip_frames, temp_exists, done_json, scenes_json, out_file, events,
                   histVars, args, keyframes, split_files, sdVars, pipeVars, vq, readers>>

\* The inputs and configurations of the planning runs.
InitPlan ==
    /\ clip_frames \in 1..MaxPlanFrames
    /\ temp_exists = FALSE
    /\ done_json = None
    /\ chunks_json = None
    /\ scenes_json = None
    /\ out_file = [c \in ChunkIds |-> None]
    /\ pc = "off"
    /\ ProcOff
    /\ exit_code = "none"
    /\ events = {}
    /\ completed = [c \in ChunkIds |-> 0]
    /\ passed = [c \in ChunkIds |-> None]
    /\ seen_done = {}
    /\ args \in [resume : BOOLEAN, chunk_method : ChunkMethods, chunk_order : ChunkOrderings,
                 passes : {1}, ignore_frame_mismatch : {FALSE}]
    \* the keyframes are read by the Hybrid method alone
    /\ keyframes \in {{0} \cup K : K \in SUBSET (IF args.chunk_method = "hybrid"
                                                   THEN 1..(clip_frames - 1) ELSE {})}
    /\ split_files = <<>>
    /\ SceneDetectIdle
    /\ PipesIdle
    /\ VideoQueueIdle
    /\ ReadersIdle

NextPlan ==
    \/ New(args.resume, 0)
    \/ SetResumeFlag
    \/ KillInPurge
    \/ SplitRoutine
    \/ SegmentVideo
    \/ PlanQueue
    \/ Kill

SpecPlan == InitPlan /\ [][NextPlan]_vars

(* ----------------------- one worker in create_pipes -------------------- *)

DirectPipeline == <<"source", "encoder">>

FilteredPipeline == <<"source", "filter", "encoder">>

\* A pipeline whose filter stage depends on the filter arguments alone.
PipelineByFilterArgs(a) ==
    IF a.ffmpeg_filter_args = <<>> THEN DirectPipeline ELSE FilteredPipeline

\* create_pipes, lines 551-603: the subprocesses, each one's stdout connected
\* to the stdin of the next; create_ffmpeg_pipe puts the filter between the
\* source and the encoder.
Pipeline(a) ==
    IF a.ffmpeg_filter_args = <<>>
    THEN IF a.input_pix_format.kind = "FFmpeg"
         THEN IF a.output_pix_format.format = a.input_pix_format.format
              THEN DirectPipeline
              ELSE FilteredPipeline
         ELSE IF a.output_pix_format.bit_depth = a.input_pix_format.bit_depth
              THEN DirectPipeline
              ELSE FilteredPipeline
    ELSE FilteredPipeline

HasFilter(pipeline) == \E i \in 1..Len(pipeline) : pipeline[i] = "filter"

\* create_pipes, lines 572-575 and 588, 597: the filter's stderr is collected
\* when there is a filter, None otherwise.
FilterStderr(pipeline) == IF HasFilter(pipeline) THEN Some("") ELSE None

\* A pass that counts as crashed when any of its subprocesses failed.
ExitFailedAnyStage(enc_status, source_status, filter_status) ==
    enc_status # 0 \/ source_status # 0 \/ filter_status # 0

\* create_pipes, line 688: !enc_output.status.success()
ExitFailed(enc_status, source_status, filter_status) == enc_status # 0

\* A frame counter that is tracked in every pass.
FrameDeltaEveryPass(frame, parsed, current_pass, passes) ==
    IF parsed # None /\ parsed[1] > frame THEN parsed[1] - frame ELSE 0

\* create_pipes, lines 672-681: the advance of the frame counter and of the
\* bar for one record of the encoder's stderr, parsed being the result of
\* parse_encoded_frames.
FrameDelta(frame, parsed, current_pass, passes) ==
    IF current_pass = passes /\ parsed # None /\ parsed[1] > frame
    THEN parsed[1] - frame
    ELSE 0

\* What create_pipes returns: Ok(()), or the EncoderCrash with the frame count.
PipesReturn(r, enc_status, filter_stderr, frame) ==
    IF r.ok
    THEN [ok |-> TRUE, exit_status |-> 0, ffmpeg_pipe_stderr |-> None, stdout |-> "",
          frames |-> 0]
    ELSE [ok |-> FALSE, exit_status |-> enc_status, ffmpeg_pipe_stderr |-> filter_stderr,
          stdout |-> r.stdout, frames |-> frame]

\* The chunks the worker may hold.
PipeChunks ==
    {[index |-> 1, start_frame |-> 0, end_frame |-> e, passes |-> p,
      ignore_frame_mismatch |-> i] : e \in 1..MaxClipFrames, p \in 1..2, i \in BOOLEAN}

\* What parse_encoded_frames can return for a record.
ParsedFrames == {None} \cup {Some(n) : n \in 0..MaxClipFrames}

InitPipes ==
    /\ SceneDetectIdle
    /\ OrchIdle
    /\ VideoQueueIdle
    /\ ReadersIdle
    /\ pipe_args \in PipeArgs
    \* the bar starts at the frame sum of the DoneSet: none, or one chunk done before
    /\ pipe \in {WorkerBefore(c, d) : c \in PipeChunks, d \in {0, MaxClipFrames}}

\* create_pipes, lines 497-650: the subprocesses are spawned and connected,
\* the frame counter starts at 0.
SpawnPipes ==
    /\ pipe.st = "idle"
    /\ pipe' = [pipe EXCEPT !.st = "run",
                            !.pipeline = Pipeline(pipe_args),
                            !.ffmpeg_pipe_stderr = FilterStderr(Pipeline(pipe_args)),
                            !.frame = 0,
                            !.bar_before = pipe.bar,
                            !.enc_status = 0,
                            !.source_status = 0,
                            !.filter_status = 0,
                            !.res = None]
    /\ UNCHANGED <<sdVars, orchVars, pipe_args, vq, readers>>

\* create_pipes, lines 657-685: one record of the encoder's stderr is read
\* (verbosity Normal or Verbose).
EncoderRecord ==
    /\ pipe.st = "run"
    /\ \E parsed \in ParsedFrames :
        LET delta == FrameDelta(pipe.frame, parsed, pipe.pass, pipe.chunk.passes)
        IN  pipe' = [pipe EXCEPT !.frame = IF delta > 0 THEN parsed[1] ELSE @,
                                 !.bar = @ + delta]
    /\ UNCHANGED <<sdVars, orchVars, pipe_args, vq, readers>>

\* create_pipes, lines 687-749: the encoder's stderr is at its end, the
\* encoder has exited and create_pipes returns; the source and the filter end
\* with statuses of their own.
EncoderExit ==
    /\ pipe.st = "run"
    /\ \E oc \in EncOutcomes(pipe.chunk), source_status \in {0, 1},
          filter_status \in (IF HasFilter(pipe.pipeline) THEN {0, 1} ELSE {0}) :
        LET enc_status == IF oc.ok THEN 0 ELSE 1
            file == IF WritesOutput(EncCmd(pipe.chunk, pipe.pass))
                    THEN Some(oc.file)
                    ELSE pipe.file
            r == CreatePipesResult(pipe.chunk, pipe.pass,
                                   ~ExitFailed(enc_status, source_status, filter_status),
                                   Probe(file))
        IN  pipe' = [pipe EXCEPT !.st = "ret",
                                 !.enc_status = enc_status,
                                 !.source_status = source_status,
                                 !.filter_status = filter_status,
                                 !.file = file,
                                 !.res = Some(PipesReturn(r, enc_status,
                                                          pipe.ffmpeg_pipe_stderr,
                                                          pipe.frame))]
    /\ UNCHANGED <<sdVars, orchVars, pipe_args, vq, readers>>

\* The worker with the result of create_pipes: after a crash the bar is taken
\* back by the frames of the attempt and the chunk is tried again from its
\* first pass, or given up; after the final pass the chunk enters the DoneSet
\* and the bar is at the DoneSet's frame sum; after another pass the next
\* pass follows.
WorkerHandles ==
    /\ pipe.st = "ret"
    /\ LET r == pipe.res[1]
       IN  IF ~r.ok
           THEN pipe' = [pipe EXCEPT !.bar = @ - r.frames,
                                     !.st = IF TriesLeft(pipe.try) THEN "idle" ELSE "fatal",
                                     !.try = IF TriesLeft(pipe.try) THEN @ + 1 ELSE @,
                                     !.pass = RetryPass(pipe.pass)]
           ELSE IF pipe.pass = pipe.chunk.passes
                THEN pipe' = [pipe EXCEPT !.done_frames = @ + Frames(pipe.chunk),
                                          !.bar = pipe.done_frames + Frames(pipe.chunk),
                                          !.st = "done"]
                ELSE pipe' = [pipe EXCEPT !.pass = @ + 1, !.st = "idle"]
    /\ UNCHANGED <<sdVars, orchVars, pipe_args, vq, readers>>

NextPipes == SpawnPipes \/ EncoderRecord \/ EncoderExit \/ WorkerHandles

SpecPipes == InitPipes /\ [][NextPipes]_vars

(* ------------------- the reader tasks of create_pipes ------------------ *)

\* A child writes a line to its stderr.
ChildWrites(c) ==
    [c EXCEPT !.written = Append(@, Len(@) + 1), !.in_pipe = Append(@, Len(c.written) + 1)]

\* create_pipes, lines 622-636: a reader task takes the next line from its
\* stream and appends it, with a newline, to its accumulator.
LineRead(c) == [c EXCEPT !.in_pipe = Tail(@), !.text = Append(@, Head(c.in_pipe))]

\* create_pipes, lines 689-690: the clones of the accumulators.
SnapshotOf(c) == IF c.exists THEN Some(c.text) ELSE None

InitReaders ==
    /\ SceneDetectIdle
    /\ OrchIdle
    /\ PipesIdle
    /\ VideoQueueIdle
    /\ readers \in {ReadersAt("reading", f) : f \in BOOLEAN}

\* The source writes a line to its stderr, or exits.
SourceWrites ==
    /\ readers.main \in {"reading", "waiting"}
    /\ ~readers.source.exited
    /\ Len(readers.source.written) < MaxLines
    /\ readers' = [readers EXCEPT !.source = ChildWrites(@)]
    /\ UNCHANGED <<sdVars, orchVars, pipeVars, vq>>

SourceExits ==
    /\ readers.main \in {"reading", "waiting"}
    /\ ~readers.source.exited
    /\ readers' = [readers EXCEPT !.source.exited = TRUE]
    /\ UNCHANGED <<sdVars, orchVars, pipeVars, vq>>

\* The filter writes a line to its stderr, or exits.
FilterWrites ==
    /\ readers.main \in {"reading", "waiting"}
    /\ readers.filter.exists
    /\ ~readers.filter.exited
    /\ Len(readers.filter.written) < MaxLines
    /\ readers' = [readers EXCEPT !.filter = ChildWrites(@)]
    /\ UNCHANGED <<sdVars, orchVars, pipeVars, vq>>

FilterExits ==
    /\ readers.main \in {"reading", "waiting"}
    /\ readers.filter.exists
    /\ ~readers.filter.exited
    /\ readers' = [readers EXCEPT !.filter.exited = TRUE]
    /\ UNCHANGED <<sdVars, orchVars, pipeVars, vq>>

\* create_pipes, lines 622-627: the reader task of the source runs while the
\* main task is waiting in an await.
SourceReaderTask ==
    /\ readers.main \in {"reading", "waiting"}
    /\ readers.source.in_pipe # <<>>
    /\ readers' = [readers EXCEPT !.source = LineRead(@)]
    /\ UNCHANGED <<sdVars, orchVars, pipeVars, vq>>

\* create_pipes, lines 628-636: the reader task of the filter.
FilterReaderTask ==
    /\ readers.main \in {"reading", "waiting"}
    /\ readers.filter.in_pipe # <<>>
    /\ readers' = [readers EXCEPT !.filter = LineRead(@)]
    /\ UNCHANGED <<sdVars, orchVars, pipeVars, vq>>

\* create_pipes, lines 657-687: the encoder's stderr is at its end; the main
\* task leaves the read loop and awaits enc_pipe.wait_with_output().
EncoderStderrEnds ==
    /\ readers.main = "reading"
    /\ readers' = [readers EXCEPT !.main = "waiting"]
    /\ UNCHANGED <<sdVars, orchVars, pipeVars, vq>>

\* create_pipes, lines 687-697: wait_with_output has returned; the main task
\* clones the accumulators and block_on returns, which ends the reader tasks.
MainTakesSnapshot ==
    /\ readers.main = "waiting"
    /\ readers' = [readers EXCEPT !.main = "returned",
                                  !.source_pipe_stderr = SnapshotOf(readers.source),
                                  !.ffmpeg_pipe_stderr = SnapshotOf(readers.filter)]
    /\ UNCHANGED <<sdVars, orchVars, pipeVars, vq>>

NextReaders ==
    \/ SourceWrites \/ SourceExits \/ FilterWrites \/ FilterExits
    \/ SourceReaderTask \/ FilterReaderTask
    \/ EncoderStderrEnds \/ MainTakesSnapshot

SpecReaders == InitReaders /\ [][NextReaders]_vars

(* ------------------------- the chunk constructors ---------------------- *)

\* The settings of self.args that a zone can override.
GlobalOptions ==
    [encoder |-> "aom", passes |-> 2, video_params |-> <<"--global">>,
     photon_noise |-> None, photon_noise_size |-> <<None, None>>, chroma_noise |-> FALSE]

\* The ZoneOptions of a zone that overrides every setting.
ZoneOptions ==
    [encoder |-> "svt-av1", passes |-> 1, video_params |-> <<"--zone">>,
     photon_noise |-> Some(4), photon_noise_width |-> Some(16),
     photon_noise_height |-> Some(8), chroma_noise |-> TRUE,
     min_scene_len |-> ZoneMinSceneLen]

\* The scene lists split_routine can return for a clip: the tilings of
\* [0, total), each scene with or without the overrides of a zone.
ZonedScenes(total) ==
    UNION {LET b == SortedSeq({0, total} \cup C)
           IN  {[i \in 1..(Len(b) - 1) |->
                    [start_frame |-> b[i], end_frame |-> b[i + 1], zone_overrides |-> o[i]]] :
                o \in [1..(Len(b) - 1) -> {None, Some(ZoneOptions)}]} :
           C \in SUBSET (1..(total - 1))}

\* The input video, the VapourSynth script, and a file of temp/split.
InputVideo == [kind |-> "video", n |-> 0]

InputScript == [kind |-> "script", n |-> 0]

SplitFile(i) == [kind |-> "split", n |-> i]

\* A script chunk whose source command ends at end_frame.
CreateVsChunkEndInclusive(index, scene) ==
    LET ovr == scene.zone_overrides
    IN  [index |-> index,
         input |-> InputScript,
         source_cmd |-> [prog |-> "vspipe", input |-> InputScript,
                         first |-> Some(scene.start_frame),
                         last |-> Some(scene.end_frame)],
         start_frame |-> scene.start_frame,
         end_frame |-> scene.end_frame,
         video_params |-> IF ovr = None THEN GlobalOptions.video_params
                          ELSE ovr[1].video_params,
         passes |-> IF ovr = None THEN GlobalOptions.passes ELSE ovr[1].passes,
         encoder |-> IF ovr = None THEN GlobalOptions.encoder ELSE ovr[1].encoder,
         noise_size |-> IF ovr = None THEN GlobalOptions.photon_noise_size
                        ELSE <<ovr[1].photon_noise_width, ovr[1].photon_noise_height>>,
         photon_noise |-> IF ovr = None THEN GlobalOptions.photon_noise
                          ELSE ovr[1].photon_noise,
         chroma_noise |-> IF ovr = None THEN GlobalOptions.chroma_noise
                          ELSE ovr[1].chroma_noise]

\* create_vs_chunk, lines 889-948: vspipe -s start_frame -e end_frame - 1;
\* photon_noise and chroma_noise are the arguments of apply_photon_noise_args.
CreateVsChunk(index, scene) ==
    LET ovr == scene.zone_overrides
    IN  [index |-> index,
         input |-> InputScript,
         source_cmd |-> [prog |-> "vspipe", input |-> InputScript,
                         first |-> Some(scene.start_frame),
                         last |-> Some(scene.end_frame - 1)],
         start_frame |-> scene.start_frame,
         end_frame |-> scene.end_frame,
         video_params |-> IF ovr = None THEN GlobalOptions.video_params
                          ELSE ovr[1].video_params,
         passes |-> IF ovr = None THEN GlobalOptions.passes ELSE ovr[1].passes,
         encoder |-> IF ovr = None THEN GlobalOptions.encoder ELSE ovr[1].encoder,
         noise_size |-> IF ovr = None THEN GlobalOptions.photon_noise_size
                        ELSE <<ovr[1].photon_noise_width, ovr[1].photon_noise_height>>,
         photon_noise |-> IF ovr = None THEN GlobalOptions.photon_noise
                          ELSE ovr[1].photon_noise,
         chroma_noise |-> IF ovr = None THEN GlobalOptions.chroma_noise
                          ELSE ovr[1].chroma_noise]

\* create_select_chunk, lines 814-887, after its assert: ffmpeg with
\* select=between(n, start_frame, end_frame - 1) on src_path.
CreateSelectChunk(index, src_path, start_frame, end_frame, ovr) ==
    [index |-> index,
     input |-> src_path,
     source_cmd |-> [prog |-> "ffmpeg", input |-> src_path,
                     first |-> Some(start_frame), last |-> Some(end_frame - 1)],
     start_frame |-> start_frame,
     end_frame |-> end_frame,
     video_params |-> IF ovr = None THEN GlobalOptions.video_params ELSE ovr[1].video_params,
     passes |-> IF ovr = None THEN GlobalOptions.passes ELSE ovr[1].passes,
     encoder |-> IF ovr = None THEN GlobalOptions.encoder ELSE ovr[1].encoder,
     noise_size |-> GlobalOptions.photon_noise_size,
     photon_noise |-> IF ovr = None THEN GlobalOptions.photon_noise ELSE ovr[1].photon_noise,
     chroma_noise |-> GlobalOptions.chroma_noise]

\* create_chunk_from_segment, lines 1077-1133: ffmpeg on the whole file, whose
\* frames get_num_frames counts.
CreateChunkFromSegment(index, file, num_frames, ovr) ==
    [index |-> index,
     input |-> file,
     source_cmd |-> [prog |-> "ffmpeg", input |-> file, first |-> None, last |-> None],
     start_frame |-> 0,
     end_frame |-> num_frames,
     video_params |-> IF ovr = None THEN GlobalOptions.video_params ELSE ovr[1].video_params,
     passes |-> IF ovr = None THEN GlobalOptions.passes ELSE ovr[1].passes,
     encoder |-> IF ovr = None THEN GlobalOptions.encoder ELSE ovr[1].encoder,
     noise_size |-> GlobalOptions.photon_noise_size,
     photon_noise |-> IF ovr = None THEN GlobalOptions.photon_noise ELSE ovr[1].photon_noise,
     chroma_noise |-> GlobalOptions.chroma_noise]

\* create_video_queue_vs, lines 952-963.
CreateVideoQueueVs(sc) ==
    [ok |-> TRUE, chunks |-> [i \in 1..Len(sc) |-> CreateVsChunk(i - 1, sc[i])]]

\* create_video_queue_select, lines 965-986; create_select_chunk asserts
\* start_frame < end_frame.
CreateVideoQueueSelect(sc) ==
    [ok |-> \A i \in 1..Len(sc) : sc[i].start_frame < sc[i].end_frame,
     chunks |-> [i \in 1..Len(sc) |->
                    CreateSelectChunk(i - 1, InputVideo, sc[i].start_frame, sc[i].end_frame,
                                      sc[i].zone_overrides)]]

\* create_video_queue_segment, lines 1000-1022: the assert on the files, then
\* the chunk of each file with the overrides of scenes[index].
CreateVideoQueueSegment(files, sc) ==
    IF files = <<>> \/ Len(files) > Len(sc)
    THEN [ok |-> FALSE, chunks |-> <<>>]
    ELSE [ok |-> TRUE,
          chunks |-> [i \in 1..Len(files) |->
                         CreateChunkFromSegment(i - 1, SplitFile(i), files[i],
                                                sc[i].zone_overrides)]]

\* A hybrid queue with ranges counted from the start of the input.
HybridOffsetNone(x) == 0

\* create_video_queue_hybrid, line 1053: the frames of a scene are counted
\* from x, the first frame of the segment file.
HybridOffset(x) == x

\* create_video_queue_hybrid, lines 1045-1056: for each file zipped with its
\* window (x, y), the scenes inside the window.
RECURSIVE HybridSegmentList(_, _, _, _)
HybridSegmentList(n, windows, sc, i) ==
    IF i > n THEN <<>>
    ELSE LET x == windows[i]
             y == windows[i + 1]
             inside == SelectSeq(sc, LAMBDA s : s.start_frame >= x /\ s.end_frame <= y
                                                /\ s.start_frame < s.end_frame)
         IN  [j \in 1..Len(inside) |->
                 [file |-> SplitFile(i),
                  start |-> inside[j].start_frame - HybridOffset(x),
                  end |-> inside[j].end_frame - HybridOffset(x),
                  scene |-> inside[j]]]
             \o HybridSegmentList(n, windows, sc, i + 1)

\* create_video_queue_hybrid, lines 1045-1073.
CreateVideoQueueHybrid(files, sc, kf, frames) ==
    LET windows == ToSplit(kf, sc) \o <<frames>>
        segs == HybridSegmentList(Min(Len(files), Len(windows) - 1), windows, sc, 1)
    IN  [ok |-> \A i \in 1..Len(segs) : segs[i].start < segs[i].end,
         chunks |-> [i \in 1..Len(segs) |->
                        CreateSelectChunk(i - 1, segs[i].file, segs[i].start, segs[i].end,
                                          segs[i].scene.zone_overrides)]]

\* create_encoding_queue, lines 753-771: the queue of the chunk method.
CreateVideoQueue(method, files, sc, kf, frames) ==
    CASE method = "vs"      -> CreateVideoQueueVs(sc)
      [] method = "select"  -> CreateVideoQueueSelect(sc)
      [] method = "segment" -> CreateVideoQueueSegment(files, sc)
      [] OTHER              -> CreateVideoQueueHybrid(files, sc, kf, frames)

\* self.frames after split_routine: the frame count of the scene list.
SceneFrames(sc) == sc[Len(sc)].end_frame

\* The scenes, the chunk method and the keyframes of the input (read by the
\* Hybrid method alone; frame 0 is a keyframe).
InitQueue ==
    /\ SceneDetectIdle
    /\ OrchIdle
    /\ PipesIdle
    /\ ReadersIdle
    /\ vq \in {[st |-> "start", chunk_method |-> m, scenes |-> sc, keyframes |-> {0} \cup K,
                 files |-> <<>>, chunk_queue |-> <<>>] :
                m \in ChunkMethods,
                sc \in UNION {ZonedScenes(t) : t \in 1..MaxPlanFrames},
                K \in SUBSET (1..(MaxPlanFrames - 1))}
    /\ vq.chunk_method # "hybrid" => vq.keyframes = {0}
    /\ \A k \in vq.keyframes : k < SceneFrames(vq.scenes)

\* create_video_queue_segment and create_video_queue_hybrid up to the return
\* of segment(): the splitter ran on the points of the chunk method.
SegmentInput ==
    /\ vq.st = "start"
    /\ vq.chunk_method \in {"segment", "hybrid"}
    /\ \E files \in SplitterOutcomes(
                        IF vq.chunk_method = "segment" THEN SegmentPoints(vq.scenes)
                        ELSE Tail(ToSplit(vq.keyframes, vq.scenes)),
                        SceneFrames(vq.scenes), <<>>) :
        vq' = [vq EXCEPT !.st = "split", !.files = files]
    /\ UNCHANGED <<sdVars, orchVars, pipeVars, readers>>

\* The queue of the chunk method is built, or a constructor panics.
BuildQueue ==
    /\ \/ vq.st = "split"
       \/ vq.st = "start" /\ vq.chunk_method \in {"vs", "select"}
    /\ LET q == CreateVideoQueue(vq.chunk_method, vq.files, vq.scenes, vq.keyframes,
                                 SceneFrames(vq.scenes))
       IN  vq' = [vq EXCEPT !.st = IF q.ok THEN "queued" ELSE "panic",
                            !.chunk_queue = IF q.ok THEN q.chunks ELSE <<>>]
    /\ UNCHANGED <<sdVars, orchVars, pipeVars, readers>>

NextQueue == SegmentInput \/ BuildQueue

SpecQueue == InitQueue /\ [][NextQueue]_vars

(* ------------------------- claims: scene_detect ----------------------- *)

\* The scene list tiles [0, total_frames): sorted, non-empty scenes, the first
\* starting at 0, each starting where the previous one ended, the last ending
\* at total_frames.
Tiles(sc, total) ==
    /\ Len(sc) > 0
    /\ sc[1].start_frame = 0
    /\ Last(sc).end_frame = total
    /\ \A i \in 1..Len(sc) : sc[i].start_frame < sc[i].end_frame
    /\ \A i \in 1..(Len(sc) - 1) : sc[i + 1].start_frame = sc[i].end_frame

\* C1: when every analyzer call returned a strictly increasing cut list that
\* starts at 0, stays below its segment's frame count and reports a frame
\* count equal to the frame limit, the scenes scene_detect returns tile
\* [0, total_frames) contiguously, in order and without empty scenes.
C1_ScenesTile == (sd_pc = "done" /\ contract) => Tiles(scenes, total_frames)

\* A finished walk over two zones separated by a gap, with a cut inside a segment.
C1_Witness ==
    /\ sd_pc = "done"
    /\ contract
    /\ Len(zones) = 2
    /\ zones[1].end_frame < zones[2].start_frame
    /\ Len(scenes) > sd_calls
    /\ sd_calls >= 3

\* C2: no returned scene has a zone's start_frame or end_frame strictly
\* between its own start_frame and end_frame.
C2_NoSceneCrossesZone ==
    sd_pc = "done" =>
        \A i \in 1..Len(scenes) : \A j \in 1..Len(zones) :
            /\ ~(scenes[i].start_frame < zones[j].start_frame
                 /\ zones[j].start_frame < scenes[i].end_frame)
            /\ ~(scenes[i].start_frame < zones[j].end_frame
                 /\ zones[j].end_frame < scenes[i].end_frame)

\* A finished walk with a zone strictly inside the video and scenes on both
\* sides of each of its boundaries.
C2_Witness ==
    /\ sd_pc = "done"
    /\ Len(zones) >= 1
    /\ zones[1].start_frame > 0
    /\ zones[1].end_frame < total_frames
    /\ \E i \in 1..Len(scenes) : scenes[i].end_frame = zones[1].start_frame
    /\ \E i \in 1..Len(scenes) : scenes[i].start_frame = zones[1].end_frame

(* ------------------------- claims: orchestrator ----------------------- *)

\* The DoneSet has an entry under the name of the chunk.
IsDone(d, chunk) == \E e \in d.done : e.name = Name(chunk.index)

\* The chunk of chunks.json with a given index.
PlannedChunk(index) == chunks_json[1][index + 1]

\* The DoneSets that exist: the one in memory while a process runs and the
\* one serialized in a complete temp/done.json.
DoneSets ==
    (IF pc # "off" THEN {done} ELSE {})
        \cup (IF done_json # None /\ done_json[1].complete THEN {done_json[1].json} ELSE {})

\* The step in which encode_file builds the queue of a resumed run and starts
\* the worker pool leaves: the chunks of chunks.json that are not in the
\* DoneSet, each once and in the order of chunks.json, as the queue the
\* workers are fed from; the persisted count as the total; the DoneSet size as
\* the completed count; the DoneSet's frame sum as the bar position.
ResumeStart ==
    (pc = "split" /\ pc' = "encoding" /\ resume) =>
        LET persisted == chunks_json[1]
            pos(c) == CHOOSE i \in 1..Len(persisted) : persisted[i] = c
        IN /\ \A i \in 1..Len(chunk_queue') :
                /\ \E j \in 1..Len(persisted) : persisted[j] = chunk_queue'[i]
                /\ ~IsDone(done, chunk_queue'[i])
           /\ \A j \in 1..Len(persisted) :
                ~IsDone(done, persisted[j]) =>
                    Cardinality({i \in 1..Len(chunk_queue') : chunk_queue'[i] = persisted[j]}) = 1
           /\ \A i \in 1..Len(chunk_queue'), k \in 1..Len(chunk_queue') :
                i < k => pos(chunk_queue'[i]) < pos(chunk_queue'[k])
           /\ \A w \in WorkerIds : w <= workers' => wk'[w].chunk = chunk_queue'[w]
           /\ work' = SubSeq(chunk_queue', workers' + 1, Len(chunk_queue'))
           /\ total_chunks' = Len(persisted)
           /\ chunks_done' = Cardinality(done.done)
           /\ bar' = Some(SumFrames(done.done))

\* No worker holds, and the queue does not contain, a chunk that was in the
\* DoneSet when the queue was built or was completed since.
NoDoneChunkDispatched ==
    pc = "encoding" =>
        /\ \A w \in WorkerIds : wk[w].st = "enc" => ~IsDone(done, wk[w].chunk)
        /\ \A i \in 1..Len(work) : ~IsDone(done, work[i])

\* C3: on a resumed run the dispatched queue is exactly the chunks of
\* chunks.json whose name is not a key of the DoneSet, in their persisted
\* order; the total is the persisted count, the completed count is the
\* DoneSet size and the progress bar starts at the DoneSet's frame sum; no
\* chunk that is in the DoneSet is dispatched again.
C3_ResumedQueue == [][ResumeStart]_vars /\ []NoDoneChunkDispatched

\* A resumed run with a chunk done before it started and another one being
\* encoded.
C3_Witness ==
    /\ pc = "encoding"
    /\ resume
    /\ chunks_done >= 1
    /\ Len(chunk_queue) >= 1
    /\ Len(chunk_queue) + chunks_done = total_chunks
    /\ \E w \in WorkerIds : wk[w].st = "enc"

\* C4: when a run that was killed and resumed reaches the concatenation,
\* every chunk planned in chunks.json has been recorded done exactly once
\* since temp/ was created, with its planned frame range, none is missing,
\* and the plan is the tiling of the clip made by the first run.
C4_ResumeIdempotent ==
    pc = "joined" =>
        /\ chunks_json # None
        /\ scenes_json # None
        /\ Len(chunks_json[1]) = Len(scenes_json[1])
        /\ Tiles(scenes_json[1], clip_frames)
        /\ \A i \in 1..Len(chunks_json[1]) :
            LET chunk == chunks_json[1][i]
            IN /\ chunk.index = i - 1
               /\ chunk.start_frame = scenes_json[1][i].start_frame
               /\ chunk.end_frame = scenes_json[1][i].end_frame
               /\ completed[chunk.index] = 1
               /\ [name |-> Name(chunk.index), frames |-> Frames(chunk)] \in done.done
               /\ out_file[chunk.index] # None
        /\ Cardinality(done.done) = Len(chunks_json[1])

\* A resumed run that waits to concatenate: one chunk was done before the
\* kill, the other one was encoded after the resume.
C4_Witness ==
    /\ pc = "joined"
    /\ resume
    /\ chunks_done >= 1
    /\ Len(chunk_queue) >= 1
    /\ total_chunks >= 2

\* The worker threads that have sent FatalChunk.
FatalWorkers == {w \in WorkerIds : wk[w].st = "fatal"}

C6_FatalExit ==
    /\ chan > 0 => pc = "encoding"
    /\ pc = "joined" => FatalWorkers = {}
    /\ exit_code = "1" =>
        /\ pc = "off"
        /\ events = {}
        /\ temp_exists
        /\ done_json # None
        /\ chunks_json # None
        /\ \A c \in ChunkIds : completed[c] > 0 => out_file[c] # None

\* The process exited with code 1 after a chunk had been encoded and recorded.
C6_Witness ==
    /\ exit_code = "1"
    /\ pc = "off"
    /\ \E c \in ChunkIds : completed[c] = 1 /\ out_file[c] # None
    /\ \E c \in ChunkIds : completed[c] = 0 /\ out_file[c] # None

RECURSIVE SumLive(_)
\* The encoder subprocesses alive over a set of workers.
SumLive(W) ==
    IF W = {} THEN 0
    ELSE LET w == CHOOSE x \in W : TRUE
         IN  live_enc[w] + SumLive(W \ {w})

\* C7: the live encoder subprocesses are never more than the effective worker
\* count; a worker has at most one, and has none unless it is inside
\* create_pipes.
C7_WorkerBound ==
    /\ SumLive(WorkerIds) <= workers
    /\ \A w \in WorkerIds :
        /\ live_enc[w] <= 1
        /\ live_enc[w] = 1 <=> wk[w].st = "enc"
        /\ wk[w].st # "absent" <=> (pc \in {"encoding", "joined"} /\ w <= workers)

\* Two workers, each with its encoder alive, one of them in a later pass.
C7_Witness ==
    /\ workers = 2
    /\ live_enc[1] = 1
    /\ live_enc[2] = 1
    /\ \E w \in WorkerIds : wk[w].pass = 2

\* C8: while a process runs, every entry the DoneSet has held since the last
\* fresh start, in this run or in the runs it resumes, is still in the
\* DoneSet, and so the frame sum is not below that of those entries.
C8_DoneSetMonotonic ==
    pc # "off" =>
        /\ seen_done \subseteq done.done
        /\ SumFrames(seen_done) <= SumFrames(done.done)

\* A resumed run whose DoneSet holds an entry of the killed run and one of
\* its own.
C8_Witness ==
    /\ pc = "encoding"
    /\ resume
    /\ chunks_done >= 1
    /\ Cardinality(done.done) > chunks_done
    /\ seen_done = done.done

\* C9: every entry of a DoneSet belongs to a planned chunk whose latest
\* completion followed a final pass whose encoder exited successfully and
\* whose output could be probed, with a probed frame count of
\* end_frame - start_frame unless ignore_frame_mismatch is set; the frames
\* value of the entry is end_frame - start_frame.
C9_DoneMeansVerified ==
    \A d \in DoneSets : \A e \in d.done :
        /\ chunks_json # None
        /\ \E i \in 1..Len(chunks_json[1]) :
            LET chunk == chunks_json[1][i]
                p == passed[chunk.index]
            IN /\ e.name = Name(chunk.index)
               /\ e.frames = chunk.end_frame - chunk.start_frame
               /\ p # None
               /\ p[1].exit_ok
               /\ p[1].pass = chunk.passes
               /\ p[1].probe.ok
               /\ ~chunk.ignore_frame_mismatch =>
                    p[1].probe.frames = chunk.end_frame - chunk.start_frame

\* One DoneSet entry of a chunk that was verified, next to the output of a
\* chunk that is not done.
C9_Witness ==
    /\ pc = "encoding"
    /\ chunks_json # None
    /\ Len(chunks_json[1]) = 2
    /\ ~chunks_json[1][1].ignore_frame_mismatch
    /\ \E c \in ChunkIds : completed[c] = 1 /\ passed[c] # None /\ passed[c][1].probe.ok
    /\ \E c \in ChunkIds : completed[c] = 0 /\ out_file[c] # None /\ out_file[c][1].frames = 0
    /\ Cardinality(done.done) = 1

\* C10: a worker runs pass 2 only for a two-pass chunk, with the second-pass
\* command, after pass 1 of the same attempt exited successfully on that
\* worker; a one-pass chunk runs the one-pass command only; a chunk enters
\* the DoneSet only after its final pass succeeded.
C10_PassOrder ==
    /\ \A w \in WorkerIds : wk[w].st = "enc" =>
        /\ wk[w].pass \in 1..wk[w].chunk.passes
        /\ wk[w].chunk.passes = 1 => wk[w].cmd = "compose_1_1_pass"
        /\ (wk[w].chunk.passes = 2 /\ wk[w].pass = 1) =>
                wk[w].cmd = "compose_1_2_pass" /\ ~wk[w].p1ok
        /\ wk[w].pass = 2 => wk[w].cmd = "compose_2_2_pass" /\ wk[w].p1ok
    /\ \A c \in ChunkIds : passed[c] # None =>
        /\ passed[c][1].exit_ok
        /\ passed[c][1].pass = PlannedChunk(c).passes
        /\ passed[c][1].cmd = IF PlannedChunk(c).passes = 1 THEN "compose_1_1_pass"
                              ELSE "compose_2_2_pass"
        /\ PlannedChunk(c).passes = 2 => passed[c][1].p1ok

\* A worker in pass 2 of the second attempt of a two-pass chunk, next to a
\* two-pass chunk that is done.
C10_Witness ==
    /\ pc = "encoding"
    /\ \E w \in WorkerIds : wk[w].st = "enc" /\ wk[w].pass = 2 /\ wk[w].try = 2
    /\ \E c \in ChunkIds : passed[c] # None /\ passed[c][1].pass = 2

\* The first-pass command of a chunk: the one-pass command, or the command
\* that writes the first-pass stats file of a two-pass chunk.
FirstPassCmd(chunk) == IF chunk.passes = 1 THEN "compose_1_1_pass" ELSE "compose_1_2_pass"

\* A step in which a worker begins another attempt begins it for the same
\* chunk, with fewer than 3 attempts made, in pass 1 and with the first-pass
\* command; a step in which a worker enters pass 2 continues the attempt whose
\* pass 1 it was running.
RetryStep(w) ==
    /\ (wk[w].st = "enc" /\ wk'[w].st = "enc" /\ wk'[w].fails > wk[w].fails) =>
        /\ wk'[w].chunk = wk[w].chunk
        /\ wk[w].try < 3
        /\ wk'[w].try = wk[w].try + 1
        /\ wk'[w].pass = 1
        /\ wk'[w].cmd = FirstPassCmd(wk[w].chunk)
    /\ (wk'[w].st = "enc" /\ wk'[w].pass = 2 /\ wk'[w] # wk[w]) =>
        /\ wk[w].st = "enc"
        /\ wk[w].pass = 1
        /\ wk'[w].chunk = wk[w].chunk
        /\ wk'[w].try = wk[w].try
        /\ wk'[w].fails = wk[w].fails

\* C11: when an attempt of a two-pass chunk fails in pass 1 or in pass 2 and
\* fewer than 3 attempts were made, the next attempt starts at pass 1 with the
\* command that rewrites the first-pass stats file; no attempt starts at
\* pass 2.
C11_RetryRestartsAtPassOne == [][\A w \in WorkerIds : RetryStep(w)]_vars

\* In a fresh run the second attempt of a two-pass chunk runs pass 1 while the
\* chunk's output, written by pass 2 of the first attempt, is on disk; another
\* worker runs pass 1 of a third attempt with no output written yet.
C11_Witness ==
    /\ pc = "encoding"
    /\ ~resume
    /\ \E w \in WorkerIds :
        /\ wk[w].st = "enc" /\ wk[w].chunk.passes = 2
        /\ wk[w].try = 2 /\ wk[w].pass = 1
        /\ out_file[wk[w].chunk.index] # None
    /\ \E w \in WorkerIds :
        /\ wk[w].st = "enc" /\ wk[w].chunk.passes = 2
        /\ wk[w].try = 3 /\ wk[w].pass = 1
        /\ out_file[wk[w].chunk.index] = None

(* --------------------------- claims: planning ------------------------- *)

\* The frames of the chunks of a queue, summed.
RECURSIVE SumChunkFrames(_)
SumChunkFrames(chunks) ==
    IF chunks = <<>> THEN 0 ELSE Frames(Head(chunks)) + SumChunkFrames(Tail(chunks))

\* The chunk indices of a queue.
Indices(chunks) == {chunks[i].index : i \in 1..Len(chunks)}

\* The chunks cover total frames, none is empty, and their indices are
\* 0..n-1 without a duplicate.
CoversInput(chunks, total) ==
    /\ SumChunkFrames(chunks) = total
    /\ \A i \in 1..Len(chunks) : Frames(chunks[i]) >= 1
    /\ Indices(chunks) = 0..(Len(chunks) - 1)
    /\ \A i, j \in 1..Len(chunks) : chunks[i].index = chunks[j].index => i = j

\* C12: for every chunk method and every tiling scene list, the chunks a
\* fresh run planned sum to the frame count of the input, each has at least
\* one frame, and their indices are exactly 0..n-1 without a duplicate.
C12_PlannedChunksCoverInput ==
    (pc = "planned" /\ ~resume /\ Tiles(splits, ctx_frames)) =>
        CoversInput(chunk_queue, ctx_frames)

(* --------------------------- claims: done.json ------------------------ *)

\* C13: done.json is replaced atomically: at every instant, also after the
\* process was killed, the file holds a complete serialization of a DoneSet.
C13_DoneJsonAlwaysComplete == done_json # None => done_json[1].complete

\* The queues create_encoding_queue can return to a fresh run with the
\* configuration, the scene list and the segment files of this run.
PlansOfRun ==
    LET q == VideoQueue(args.chunk_method, split_files, splits, keyframes, ctx_frames)
    IN  IF q.ok THEN Ordered(q.chunks, args.chunk_order) ELSE {}

\* C14: planning is deterministic: every fresh run with the input, the scene
\* list and the configuration of this run plans the chunk list, in the order,
\* that this run planned and wrote to chunks.json, whatever the ChunkOrdering.
C14_PlanningDeterministic ==
    (pc = "planned" /\ ~resume) =>
        /\ chunks_json = Some(chunk_queue)
        /\ PlansOfRun = {chunk_queue}

(* ------------------------ claims: resume decision --------------------- *)

\* The step in which initialize returns to a process started with the flag
\* args.resume: the run is a resume exactly when the flag is set and done.json
\* and chunks.json both exist; otherwise the flag is cleared and an empty
\* DoneSet is installed and written to done.json.
DecisionStep ==
    (pc = "off" /\ pc' = "ready") =>
        /\ resume' = (args.resume /\ done_json # None /\ chunks_json # None)
        /\ ~resume' =>
            /\ done' = EmptyDone
            /\ done_json' = Some(FileOf(EmptyDone))

\* The steps in which a run that is not a resume gets its scenes and its
\* queue: the scenes tile the clip and are written to scenes.json, the queue
\* is one create_encoding_queue returns for these scenes and is written to
\* chunks.json.
PlannedAnewStep ==
    /\ (pc = "ready" /\ pc' = "split" /\ ~resume) =>
        /\ Tiles(splits', clip_frames)
        /\ scenes_json' = Some(splits')
    /\ (pc # "planned" /\ pc' = "planned" /\ ~resume) =>
        /\ chunk_queue' \in Ordered(VideoQueue(args.chunk_method, split_files, splits,
                                               keyframes, ctx_frames).chunks, args.chunk_order)
        /\ chunks_json' = Some(chunk_queue')

C16_FreshRunStartsPurged ==
    (pc = "ready" /\ ~resume) =>
        /\ split_files = <<>>
        /\ \A c \in ChunkIds : out_file[c] = None

\* C17: when a run is started on a temp/ whose done.json cannot be read (it
\* is there but holds no complete serialization), the run goes on as a fresh
\* run: initialize returns with resume false and a fresh DoneSet, it does not
\* end the process with an error.
C17_UnreadableStateFallsBack ==
    [][(pc = "off" /\ done_json # None /\ ~done_json[1].complete /\ exit_code' # exit_code)
          => (pc' = "ready" /\ ~resume' /\ done' = EmptyDone /\ exit_code' = "none")]_vars

(* ---------------------- claims: frame count mismatch ------------------ *)

\* The latest analyzer invocation had a frame limit and returned another
\* frame count.
LastCallMismatch ==
    /\ last_call # None
    /\ last_call[1].frame_limit # None
    /\ last_call[1].frame_limit[1] # last_call[1].result.frame_count

\* C18: when an analyzer invocation made with a frame limit returns a frame
\* count that differs from the limit, scene_detect fails with an error: it
\* makes no further invocation and hands out no scene list, not even the
\* scenes of the segments analyzed before.
C18_MismatchFails == LastCallMismatch => (sd_pc = "err" /\ scenes = <<>>)

\* scene_detect failed on the mismatch of a later segment, after the scenes
\* of an earlier segment had been pushed.
C18_Witness ==
    /\ sd_pc = "err"
    /\ sd_calls >= 2
    /\ LastCallMismatch
    /\ last_call[1].frames_read > 0

(* ------------------------ claims: planning failure -------------------- *)

\* The splitter of a Segment run has returned and temp/split holds no
\* segment file.
NoSegmentFile ==
    /\ pc = "segmented"
    /\ args.chunk_method = "segment"
    /\ split_files = <<>>

\* No worker thread and no encoder subprocess exists.
NoWorkerStarted ==
    /\ \A w \in WorkerIds : wk[w].st = "absent" /\ live_enc[w] = 0
    /\ workers = 0

\* The step the process takes from there: it ends, and chunks.json is as it
\* was.
PlanningFailsStep ==
    (NoSegmentFile /\ pc' # pc) =>
        /\ pc' = "off"
        /\ exit_code' \in {"panic", "killed"}
        /\ chunks_json' = chunks_json
        /\ NoWorkerStarted'

\* A Segment run that planned its queue had a segment file.
SegmentPlanHasFile ==
    (pc = "planned" /\ ~resume /\ args.chunk_method = "segment") => split_files # <<>>

\* While planning has not returned, nothing is started.
NothingStartedYet == NoSegmentFile => NoWorkerStarted

\* C19: under the Segment strategy, when the splitter leaves no segment file
\* in temp/split, planning fails: the process ends before chunks.json is
\* written and before a worker or an encoder subprocess is started, and no
\* Segment run gets a planned queue without a segment file.
C19_NoSegmentFileFailsPlanning ==
    /\ [][PlanningFailsStep]_vars
    /\ []SegmentPlanHasFile
    /\ []NothingStartedYet

\* A Segment run whose splitter wrote nothing has ended in the panic of the
\* assert, without a chunks.json.
C19_Witness ==
    /\ pc = "off"
    /\ exit_code = "panic"
    /\ args.chunk_method = "segment"
    /\ split_files = <<>>
    /\ chunks_json = None

(* ---------------------------- claims: cleanup ------------------------- *)

WorkerCountStep ==
    (pc = "split" /\ pc' = "encoding") =>
        /\ workers # 0 => workers' = Min(workers, Len(chunk_queue'))
        /\ workers = 0 => \E derived \in 1..MaxWorkers :
                              workers' = Min(derived, Len(chunk_queue'))

\* The worker count of the pool is not above the number of chunks the run
\* has left to encode.
WorkersWithinQueue ==
    pc \in {"encoding", "joined"} => workers <= Len(chunk_queue)

\* C21: the effective worker count is min(w, |queue|) with w the configured
\* worker count, or the derived count when 0 is configured; it never exceeds
\* the number of chunks left to encode.
C21_EffectiveWorkers == [][WorkerCountStep]_vars /\ []WorkersWithinQueue

\* A resumed run with one of its two chunks left to encode runs one worker.
C21_Witness ==
    /\ pc = "encoding"
    /\ resume
    /\ total_chunks = 2
    /\ Len(chunk_queue) = 1
    /\ workers = 1

(* ---------------------------- claims: zone walk ----------------------- *)

\* The start frames of the zones that begin at or after frame f.
ZoneStartsFrom(f) ==
    {zones[i].start_frame : i \in {j \in 1..Len(zones) : zones[j].start_frame >= f}}

\* The scenes the latest analyzer invocation yielded: one per window of its
\* cut list and the trailing scene, at the end of the scene list.
YieldedByLastCall ==
    LET cuts == Len(last_call[1].result.scene_changes)
        n == (IF cuts > 1 THEN cuts - 1 ELSE 0) + 1
    IN  {scenes[i] : i \in {j \in 1..Len(scenes) : j > Len(scenes) - n}}

\* The latest invocation covered a segment inside a zone: it starts at the
\* zone's start, has the zone's min_scene_len where the zone overrides it,
\* and a frame limit of the zone's length.
LastCallInZone ==
    LET lc == last_call[1]
        z == lc.cur_zone[1]
    IN  /\ \E i \in 1..Len(zones) : zones[i] = z
        /\ lc.frames_read = z.start_frame
        /\ lc.min_scene_len = IF z.zone_overrides # None
                              THEN z.zone_overrides[1].min_scene_len
                              ELSE GlobalMinSceneLen
        /\ lc.frame_limit = Some(z.end_frame - z.start_frame)
        /\ sd_pc # "err" => \A sc \in YieldedByLastCall : sc.zone_overrides = z.zone_overrides

\* The latest invocation covered a segment between zones: it has the global
\* min_scene_len and a frame limit up to the start of the next zone, none
\* after the last zone.
LastCallBetweenZones ==
    LET lc == last_call[1]
        starts == ZoneStartsFrom(lc.frames_read)
    IN  /\ \A i \in 1..Len(zones) :
              ~(zones[i].start_frame <= lc.frames_read /\ lc.frames_read < zones[i].end_frame)
        /\ lc.min_scene_len = GlobalMinSceneLen
        /\ lc.frame_limit = IF starts = {} THEN None
                            ELSE Some((CHOOSE a \in starts : \A b \in starts : a <= b)
                                      - lc.frames_read)
        /\ sd_pc # "err" => \A sc \in YieldedByLastCall : sc.zone_overrides = None

\* C22: every analyzer invocation covers one segment of the zone walk: inside
\* a zone it is made with that zone's min_scene_len override and a frame limit
\* equal to the zone length, and its scenes carry the zone's overrides; between
\* zones it is made with the global min_scene_len and a frame limit up to the
\* next zone start (no limit after the last zone), and its scenes carry no
\* overrides.
C22_SegmentPerInvocation ==
    last_call # None =>
        IF last_call[1].cur_zone # None THEN LastCallInZone ELSE LastCallBetweenZones

\* The walk has analysed a zone with an override and, after it, a segment
\* between zones up to a later zone.
C22_Witness ==
    /\ last_call # None
    /\ last_call[1].cur_zone = None
    /\ last_call[1].frame_limit # None
    /\ last_call[1].frames_read > 0
    /\ Len(scenes) >= 2
    /\ scenes[1].zone_overrides # None
    /\ Last(scenes).zone_overrides = None

(* ---------------------------- claims: ordering ------------------------ *)

\* The queue q holds the chunks of the list planned, each once and unchanged.
IsReordering(q, planned) ==
    /\ Len(q) = Len(planned)
    /\ \E p \in Permutations(1..Len(planned)) : \A i \in 1..Len(q) : q[i] = planned[p[i]]

\* The frames along the queue never grow / never shrink.
NonIncreasingFrames(q) == \A i \in 1..(Len(q) - 1) : Frames(q[i]) >= Frames(q[i + 1])

NonDecreasingFrames(q) == \A i \in 1..(Len(q) - 1) : Frames(q[i]) <= Frames(q[i + 1])

\* The queue is in the order of the chunk indices 0, 1, ...
InIndexOrder(q) == \A i \in 1..Len(q) : q[i].index = i - 1

\* C23: the queue of a fresh run is a permutation of the chunks its chunk
\* method planned, every chunk with its index (hence its name) and frame
\* range unchanged; under LongestFirst the frames are non-increasing along
\* the queue, under ShortestFirst non-decreasing, and under Sequential the
\* queue is in planning (index) order.
C23_ReorderingIsPermutation ==
    (pc = "planned" /\ ~resume) =>
        LET planned == VideoQueue(args.chunk_method, split_files, splits, keyframes,
                                  ctx_frames).chunks
        IN  /\ InIndexOrder(planned)
            /\ IsReordering(chunk_queue, planned)
            /\ args.chunk_order = "longest_first" => NonIncreasingFrames(chunk_queue)
            /\ args.chunk_order = "shortest_first" => NonDecreasingFrames(chunk_queue)
            /\ args.chunk_order = "sequential" => InIndexOrder(chunk_queue)

\* LongestFirst has moved a later, longer chunk to the head of the queue.
C23_Witness ==
    /\ pc = "planned"
    /\ ~resume
    /\ args.chunk_order = "longest_first"
    /\ Len(chunk_queue) = 2
    /\ chunk_queue[1].index = 1
    /\ Frames(chunk_queue[1]) > Frames(chunk_queue[2])

(* ------------------------- claims: concatenation ---------------------- *)

\* The step in which the concatenation is started leaves a state in which the
\* receive has returned on a closed channel, no FatalChunk was sent, no worker
\* thread is left, every chunk of the queue is in the DoneSet, and the audio
\* thread, if there was one, has finished.
ConcatStep ==
    ("concat" \notin events /\ "concat" \in events') =>
        /\ pc = "joined"
        /\ chan = 0
        /\ FatalWorkers = {}
        /\ \A w \in WorkerIds : wk[w].st \in {"absent", "exited"} /\ live_enc[w] = 0
        /\ work = <<>>
        /\ \A i \in 1..Len(chunk_queue) : IsDone(done, chunk_queue[i])
        /\ au \in {"none", "done"}
        /\ au = "done" => done.audio_done

\* C24: concatenation starts only after the encoding loop has returned with
\* no FatalChunk sent, that is after every queued chunk has finished its
\* final pass, and after the audio task, if one was spawned, has finished.
C24_ConcatAfterPoolAndAudio == [][ConcatStep]_vars

\* A run with an audio thread has concatenated two chunks.
C24_Witness ==
    /\ pc = "off"
    /\ "concat" \in events
    /\ exit_code = "0"
    /\ done_json # None
    /\ done_json[1].complete
    /\ done_json[1].json.audio_done
    /\ Cardinality(done_json[1].json.done) = 2

(* ----------------------------- claims: audio thread ------------------- *)

\* The step that starts the worker pool starts the audio thread with it
\* exactly when the input is a video and the run is fresh or its DoneSet has
\* audio_done false.
AudioSpawnStep ==
    \A passes \in 1..2, ignore \in BOOLEAN, is_video \in BOOLEAN :
        StartEncodingWith(passes, ignore, is_video) =>
            /\ pc' = "encoding"
            /\ au' \in {"run", "none"}
            /\ au' = "run" <=> (is_video /\ (~resume \/ ~done.audio_done))

\* A resumed run whose DoneSet has audio_done true starts no audio thread.
AudioNotRespawnedStep ==
    (pc = "split" /\ pc' = "encoding" /\ resume /\ done.audio_done) => au' = "none"

\* An audio thread exists only inside the worker-pool scope of a process.
AudioOnlyWhileEncoding == au # "none" => pc \in {"encoding", "joined"}

\* Once the audio thread has finished, audio_done is true in the DoneSet and
\* done.json is a complete file that records it.
AudioFinishedRecorded ==
    au = "done" =>
        /\ done.audio_done
        /\ done_json # None
        /\ done_json[1].complete
        /\ done_json[1].json.audio_done

\* C26: the audio thread is spawned with the worker pool iff the input is a
\* video and the run is fresh or its loaded DoneSet has audio_done false; when
\* it has finished, audio_done is true and done.json has been rewritten; a
\* resumed run whose DoneSet has audio_done true spawns none.
C26_AudioSpawn ==
    /\ [][AudioSpawnStep /\ AudioNotRespawnedStep]_vars
    /\ [](AudioOnlyWhileEncoding /\ AudioFinishedRecorded)

\* A resumed run whose DoneSet had audio_done false has run the audio thread
\* to its end while a worker is still encoding.
C26_Witness ==
    /\ pc = "encoding"
    /\ resume
    /\ au = "done"
    /\ done_json = Some(FileOf(done))
    /\ \E w \in WorkerIds : wk[w].st \notin {"absent", "exited", "fatal"}

(* ----------------------------- claims: progress ----------------------- *)

\* C25: when every subprocess eventually exits, a run whose worker pool was
\* started eventually leaves the blocking receive: it exits with code 1 on a
\* FatalChunk, or the channel closes and it goes on to the concatenation; it
\* never waits forever.
C25_ReceiveReturns ==
    (pc = "encoding") ~>
        \/ pc = "off" /\ exit_code = "1"
        \/ pc = "off" /\ "concat" \in events

\* Two workers ended without a fatal chunk and the receive returned on the
\* closed channel.
C25_Witness ==
    /\ pc = "joined"
    /\ workers = 2
    /\ chan = 0
    /\ \A w \in 1..2 : wk[w].st = "exited"

(* ----------------------------- claims: create_pipes ------------------- *)

\* The filter is wanted: filter arguments are given, or the declared input
\* format differs from the output format in what the input declares.
FilterWanted ==
    \/ pipe_args.ffmpeg_filter_args # <<>>
    \/ /\ pipe_args.input_pix_format.kind = "FFmpeg"
       /\ pipe_args.input_pix_format.format # pipe_args.output_pix_format.format
    \/ /\ pipe_args.input_pix_format.kind = "VapourSynth"
       /\ pipe_args.input_pix_format.bit_depth # pipe_args.output_pix_format.bit_depth

\* C27: in create_pipes the filter subprocess stands between the source and
\* the encoder iff the filter arguments are non-empty, or the declared input
\* pixel format differs from the output pixel format, or the declared input
\* bit depth differs from the output bit depth; otherwise the source feeds the
\* encoder directly and no filter stderr is kept or reported.
C27_FilterPlacement ==
    pipe.pipeline # <<>> =>
        /\ FilterWanted => pipe.pipeline = <<"source", "filter", "encoder">>
        /\ ~FilterWanted =>
            /\ pipe.pipeline = <<"source", "encoder">>
            /\ pipe.ffmpeg_pipe_stderr = None
            /\ pipe.res # None => pipe.res[1].ffmpeg_pipe_stderr = None

\* A bit-depth-only input of another depth than the output, without filter
\* arguments, went through the filter, and the crash reports the filter's stderr.
C27_Witness ==
    /\ pipe_args.ffmpeg_filter_args = <<>>
    /\ pipe_args.input_pix_format.kind = "VapourSynth"
    /\ pipe_args.input_pix_format.bit_depth = 10
    /\ pipe_args.output_pix_format.bit_depth = 8
    /\ pipe.pipeline = <<"source", "filter", "encoder">>
    /\ pipe.st = "ret"
    /\ ~pipe.res[1].ok
    /\ pipe.res[1].ffmpeg_pipe_stderr # None

\* The output the final pass left does not pass the verification.
OutputRejected ==
    /\ pipe.pass = pipe.chunk.passes
    /\ \/ ~Probe(pipe.file).ok
       \/ /\ ~pipe.chunk.ignore_frame_mismatch
          /\ Probe(pipe.file).frames # pipe.chunk.end_frame - pipe.chunk.start_frame

\* C28: the encoder's exit status alone decides whether a pass crashed: when
\* the encoder exits non-zero create_pipes returns an EncoderCrash with that
\* status and the last observed frame count; when it exits with status 0 a
\* failed source or filter never makes an error: the only errors left are
\* those of the verification of the output.
C28_EncoderStatusDecides ==
    pipe.st = "ret" =>
        /\ pipe.enc_status # 0 =>
            /\ ~pipe.res[1].ok
            /\ pipe.res[1].exit_status = pipe.enc_status
            /\ pipe.res[1].frames = pipe.frame
        /\ pipe.enc_status = 0 =>
            /\ pipe.res[1].ok <=> ~OutputRejected
            /\ ~pipe.res[1].ok => pipe.res[1].stdout # "encoder"

\* The source and the filter failed, the encoder exited with status 0 and
\* create_pipes returned Ok.
C28_Witness ==
    /\ pipe.st = "ret"
    /\ pipe.enc_status = 0
    /\ pipe.source_status # 0
    /\ pipe.filter_status # 0
    /\ pipe.res[1].ok

\* The probe of the output counts another number of frames than the chunk has.
ProbedCountDiffers ==
    /\ Probe(pipe.file).ok
    /\ Probe(pipe.file).frames # pipe.chunk.end_frame - pipe.chunk.start_frame

\* C29: the frame count is verified only when the encoder exited with success
\* and current_pass = chunk.passes: a probed count other than end_frame -
\* start_frame then returns an EncoderCrash whose stdout is the FRAME MISMATCH
\* message, unless ignore_frame_mismatch is set, in which case the pass
\* succeeds; a successful pass that is not the final one returns Ok whatever
\* lies at the output, and a crashed encoder is reported as such.
C29_FrameCountVerification ==
    pipe.st = "ret" =>
        /\ (pipe.enc_status = 0 /\ pipe.pass # pipe.chunk.passes) => pipe.res[1].ok
        /\ pipe.enc_status # 0 =>
            pipe.res[1].stdout \notin {"FRAME MISMATCH", "FAILED TO COUNT FRAMES"}
        /\ (pipe.enc_status = 0 /\ pipe.pass = pipe.chunk.passes /\ ProbedCountDiffers) =>
            IF pipe.chunk.ignore_frame_mismatch
            THEN pipe.res[1].ok
            ELSE /\ ~pipe.res[1].ok
                 /\ pipe.res[1].stdout = "FRAME MISMATCH"
                 /\ pipe.res[1].exit_status = 0
        /\ pipe.res[1].stdout = "FRAME MISMATCH" =>
            /\ pipe.enc_status = 0
            /\ pipe.pass = pipe.chunk.passes
            /\ ProbedCountDiffers
            /\ ~pipe.chunk.ignore_frame_mismatch

\* The final pass of a two-pass chunk with ignore_frame_mismatch set left an
\* output of another frame count and succeeded.
C29_Witness ==
    /\ pipe.st = "ret"
    /\ pipe.chunk.passes = 2
    /\ pipe.pass = 2
    /\ pipe.chunk.ignore_frame_mismatch
    /\ pipe.enc_status = 0
    /\ ProbedCountDiffers
    /\ pipe.res[1].ok

\* While the encoder's stderr is read the frame counter and the bar do not go
\* back, they move together, and the bar moves in the final pass alone.
FrameCounterStep ==
    (pipe.st = "run" /\ pipe'.st \in {"run", "ret"}) =>
        /\ pipe'.frame >= pipe.frame
        /\ pipe'.bar >= pipe.bar
        /\ pipe'.bar - pipe.bar = pipe'.frame - pipe.frame
        /\ pipe'.bar > pipe.bar => pipe.pass = pipe.chunk.passes

\* The advances of the bar in the running attempt add up to the frame
\* counter, which is the count an EncoderCrash is returned with.
AdvancesSumToFrame ==
    pipe.st \in {"run", "ret"} =>
        /\ pipe.bar - pipe.bar_before = pipe.frame
        /\ (pipe.st = "ret" /\ ~pipe.res[1].ok) => pipe.res[1].frames = pipe.frame

\* After a failed attempt the bar is back where it was before the attempt.
BarRestoredAfterCrash ==
    (pipe.st \in {"idle", "fatal"} /\ pipe.res # None /\ ~pipe.res[1].ok) =>
        pipe.bar = pipe.bar_before

\* The bar is at the DoneSet's frame sum plus the frames of the attempt in flight.
BarIsDonePlusInFlight ==
    pipe.bar = pipe.done_frames + (IF pipe.st \in {"run", "ret"} THEN pipe.frame ELSE 0)

ProbeFailedAfterFinalPass ==
    /\ pipe.st = "ret"
    /\ pipe.enc_status = 0
    /\ pipe.pass = pipe.chunk.passes
    /\ ~Probe(pipe.file).ok

\* Such a return is an EncoderCrash with the FAILED TO COUNT FRAMES message.
ProbeFailureIsCrash ==
    ProbeFailedAfterFinalPass =>
        /\ ~pipe.res[1].ok
        /\ pipe.res[1].stdout = "FAILED TO COUNT FRAMES"
        /\ pipe.res[1].exit_status = 0

\* The worker's step on such a return: nothing enters the DoneSet, and the
\* chunk is tried again from its first pass while attempts are left.
ProbeFailureStep ==
    (ProbeFailedAfterFinalPass /\ pipe'.st # "ret") =>
        /\ pipe'.done_frames = pipe.done_frames
        /\ pipe'.st \in {"idle", "fatal"}
        /\ pipe.try < MaxTries => (pipe'.st = "idle" /\ pipe'.try = pipe.try + 1)

\* C36: when the frame-count probe itself fails after a successful final pass
\* create_pipes returns an EncoderCrash with stdout FAILED TO COUNT FRAMES,
\* also when ignore_frame_mismatch is set; the chunk goes the way of a failed
\* attempt and is not recorded as done.
C36_ProbeFailureIsCrash ==
    /\ []ProbeFailureIsCrash
    /\ [][ProbeFailureStep]_vars

\* With ignore_frame_mismatch set the probe failed after a successful final
\* pass, and the worker is about to make the second attempt.
C36_Witness ==
    /\ pipe.chunk.ignore_frame_mismatch
    /\ pipe.st = "idle"
    /\ pipe.try = 2
    /\ pipe.res # None
    /\ pipe.res[1].stdout = "FAILED TO COUNT FRAMES"
    /\ pipe.enc_status = 0
    /\ pipe.done_frames = 0

(* ----------------------------- claims: scene_detect loop -------------- *)

\* The analyzer was invoked at most twice per zone and once more.
CallsBounded == sd_calls <= 2 * Len(zones) + 1

\* An iteration that did not fail.
IterationPassed == sd_calls' = sd_calls + 1 /\ sd_pc' # "err"

\* frames_read grows with every segment that has a frame limit.
LimitedSegmentStep ==
    (IterationPassed /\ FrameLimit # None) => frames_read' > frames_read

\* The loop is left after the segment that reaches total_frames, a zone that
\* ends there or the unlimited segment after the last zone, and after no other.
LoopExitStep ==
    IterationPassed =>
        /\ sd_pc' = "done" <=>
              \/ FrameLimit = None
              \/ cur_zone # None /\ cur_zone[1].end_frame = total_frames
        /\ sd_pc' = "done" => scenes'[Len(scenes')].end_frame = total_frames
        /\ sd_pc' = "loop" => frames_read' < total_frames

\* C35: scene_detect terminates for every sorted, non-overlapping zone list:
\* the analyzer is invoked at most 2 * |zones| + 1 times, frames_read grows
\* strictly with every limited segment, and the loop is left exactly after
\* the segment that reaches total_frames.
C35_SceneDetectTerminates ==
    /\ []CallsBounded
    /\ [][LimitedSegmentStep /\ LoopExitStep]_vars
    /\ <>(sd_pc # "loop")

\* One zone in the middle of the clip: three invocations, the last of them
\* unlimited, and the loop is left.
C35_Witness ==
    /\ sd_pc = "done"
    /\ Len(zones) = 1
    /\ sd_calls = 3
    /\ last_call[1].frame_limit = None
    /\ frames_read = zones[1].end_frame

(* ----------------------------- claims: chunk constructors ------------- *)

\* The settings a chunk planned from a scene with the given overrides is to have.
SettingsOf(ovr) ==
    IF ovr = None
    THEN [encoder |-> GlobalOptions.encoder, passes |-> GlobalOptions.passes,
          video_params |-> GlobalOptions.video_params,
          photon_noise |-> GlobalOptions.photon_noise,
          noise_size |-> GlobalOptions.photon_noise_size,
          chroma_noise |-> GlobalOptions.chroma_noise]
    ELSE [encoder |-> ovr[1].encoder, passes |-> ovr[1].passes,
          video_params |-> ovr[1].video_params,
          photon_noise |-> ovr[1].photon_noise,
          noise_size |-> <<ovr[1].photon_noise_width, ovr[1].photon_noise_height>>,
          chroma_noise |-> ovr[1].chroma_noise]

\* The overridable settings a chunk has.
ChunkSettings(chunk) ==
    [encoder |-> chunk.encoder, passes |-> chunk.passes, video_params |-> chunk.video_params,
     photon_noise |-> chunk.photon_noise, noise_size |-> chunk.noise_size,
     chroma_noise |-> chunk.chroma_noise]

\* C32: for every chunking strategy the chunk planned from a scene (the chunk
\* of index i from scene i) takes encoder, passes, video_params, photon_noise,
\* the photon-noise size and chroma_noise from the scene's zone overrides when
\* it has them, and from the global settings when it has none.
C32_ChunksInheritOverrides ==
    vq.st = "queued" =>
        \A i \in 1..Len(vq.chunk_queue) :
            ChunkSettings(vq.chunk_queue[i]) = SettingsOf(vq.scenes[i].zone_overrides)

\* The container keyframes that are the start of a scene.
SceneStartKeyframes ==
    {k \in vq.keyframes : \E i \in 1..Len(vq.scenes) : vq.scenes[i].start_frame = k}

\* The split points in increasing order, closed by the total frame count.
HybridWindows == SortedSeq(SceneStartKeyframes \cup {SceneFrames(vq.scenes)})

\* The Hybrid queue was built from the segment files the splitter wrote for
\* the split points.
HybridQueued ==
    /\ vq.st = "queued"
    /\ vq.chunk_method = "hybrid"
    /\ Len(vq.files) = Cardinality(SceneStartKeyframes)
    /\ \A j \in 1..Len(vq.files) : vq.files[j] = HybridWindows[j + 1] - HybridWindows[j]

\* The window the scene lies in.
WindowOf(scene) ==
    CHOOSE j \in 1..(Len(HybridWindows) - 1) :
        HybridWindows[j] <= scene.start_frame /\ scene.end_frame <= HybridWindows[j + 1]

\* C33: under the Hybrid strategy, with the input split at the container
\* keyframes that coincide with a scene start, every scene yields exactly one
\* chunk; its source is the segment file of the interval [x, y) between
\* consecutive split points (the last closed by the total frame count) that
\* contains the scene, and its range is (start_frame - x, end_frame - x) of
\* the scene, with 0 <= start < end <= y - x.
C33_HybridChunks ==
    HybridQueued =>
        /\ Len(vq.chunk_queue) = Len(vq.scenes)
        /\ \A i \in 1..Len(vq.scenes) :
            LET scene == vq.scenes[i]
                chunk == vq.chunk_queue[i]
                inside == {j \in 1..(Len(HybridWindows) - 1) :
                              /\ HybridWindows[j] <= scene.start_frame
                              /\ scene.end_frame <= HybridWindows[j + 1]}
                x == HybridWindows[WindowOf(scene)]
                y == HybridWindows[WindowOf(scene) + 1]
            IN  /\ Cardinality(inside) = 1
                /\ chunk.index = i - 1
                /\ chunk.input = SplitFile(WindowOf(scene))
                /\ chunk.source_cmd.input = SplitFile(WindowOf(scene))
                /\ chunk.start_frame = scene.start_frame - x
                /\ chunk.end_frame = scene.end_frame - x
                /\ chunk.source_cmd.first = Some(chunk.start_frame)
                /\ chunk.source_cmd.last = Some(chunk.end_frame - 1)
                /\ 0 <= chunk.start_frame
                /\ chunk.start_frame < chunk.end_frame
                /\ chunk.end_frame <= y - x
                /\ y - x = vq.files[WindowOf(scene)]

\* The second segment file holds two scenes; the chunk of the later one
\* starts inside the file.
C33_Witness ==
    /\ HybridQueued
    /\ Len(vq.files) = 2
    /\ Len(vq.chunk_queue) = 3
    /\ vq.chunk_queue[3].input = SplitFile(2)
    /\ vq.chunk_queue[3].start_frame = 1
    /\ vq.scenes[3].start_frame = 2

\* C34: under the Script and Select strategies planning yields exactly one
\* chunk per scene in scene order: the chunk of scene i has its index (from
\* 0), its start_frame and end_frame, and a source command that requests the
\* frames start_frame .. end_frame - 1, both included; so consecutive chunks
\* neither share nor skip a frame, from frame 0 to the last frame.
C34_OneChunkPerScene ==
    (vq.st = "queued" /\ vq.chunk_method \in {"vs", "select"}) =>
        /\ Len(vq.chunk_queue) = Len(vq.scenes)
        /\ \A i \in 1..Len(vq.scenes) :
            LET chunk == vq.chunk_queue[i]
            IN  /\ chunk.index = i - 1
                /\ chunk.start_frame = vq.scenes[i].start_frame
                /\ chunk.end_frame = vq.scenes[i].end_frame
                /\ chunk.source_cmd.prog = IF vq.chunk_method = "vs" THEN "vspipe" ELSE "ffmpeg"
                /\ chunk.source_cmd.first = Some(chunk.start_frame)
                /\ chunk.source_cmd.last = Some(chunk.end_frame - 1)
        /\ \A i \in 1..(Len(vq.chunk_queue) - 1) :
            vq.chunk_queue[i + 1].source_cmd.first[1] = vq.chunk_queue[i].source_cmd.last[1] + 1
        /\ vq.chunk_queue[1].source_cmd.first = Some(0)
        /\ vq.chunk_queue[Len(vq.chunk_queue)].source_cmd.last
              = Some(SceneFrames(vq.scenes) - 1)

\* Three scenes of one frame each were planned under the Script strategy.
C34_Witness ==
    /\ vq.st = "queued"
    /\ vq.chunk_method = "vs"
    /\ Len(vq.chunk_queue) = 3
    /\ vq.chunk_queue[2].source_cmd.first = Some(1)
    /\ vq.chunk_queue[2].source_cmd.last = Some(1)

(* ----------------------------- claims: stderr of the children --------- *)

\* The text reported for a child that has exited is every line it wrote, in
\* the order it wrote them.
ReportsAllLines(c, reported) ==
    (c.exists /\ c.exited) => reported = Some(c.written)

\* C31: the source and filter stderr text reported in an EncoderCrash holds,
\* in order, every line each of the two processes wrote before it exited:
\* when the accumulators are cloned the reader tasks have drained their
\* streams, under every interleaving of the reader tasks with the encoder's exit.
C31_StderrComplete ==
    readers.main = "returned" =>
        /\ ReportsAllLines(readers.source, readers.source_pipe_stderr)
        /\ ReportsAllLines(readers.filter, readers.ffmpeg_pipe_stderr)

====
